---- MODULE Spec2Model ----
(***************************************************************************)
(* Model of p-j-miller/nsort: the in-memory sort (qsort.c, heapsort.c) and *)
(* the external line sorter built on it (nsort.c).                         *)
(*                                                                         *)
(* Arrays are TLA+ sequences; the C index i of a segment is position i+1   *)
(* of the sequence (At, swapfunc and memmove below take C indices).        *)
(* Records are opaque values ordered only by the comparator: <<key,id>>    *)
(* pairs for the array sorts, lines (sequences of character codes ending   *)
(* in 10, the newline) for the line sorter.                                *)
(*                                                                         *)
(* The tuning constants of the sources are compile-time #defines.  The     *)
(* model keeps their names and runs a scaled-down configuration (as the    *)
(* scenarios S5 and S6 of the specification do for the line sorter), which *)
(* respects the constraints the sources document: USE_SMALL_SORT >= 9,     *)
(* USE_MEDIAN25 >= 25, USE_SMALL_SORT < PAR_MIN_N < USE_MEDIAN25.          *)
(***************************************************************************)
EXTENDS Integers, Sequences, FiniteSets, TLC

\* ------------------------------------------------------------------------
\* Configuration of qsort.c (scaled; the source values are in the comments)
\* ------------------------------------------------------------------------
USE_SMALL_SORT == 9     \* qsort.c:45, source value 32 ("must be >=9")
MAX_INS_MOVES == 2      \* qsort.c:48, source value 2
USE_MEDIAN25 == 25      \* qsort.c:66, source value 100000 ("must be >=25")
PAR_MIN_N == 11         \* qsort.c:166, source value 10000
MAX_THREAD == 2         \* qsort.c:167, source value 32
\* INTROSORT_MULT (qsort.c:52, source value 15.0f) in tenths
INTROSORT_MULT_x10 == 3
\* MAX_PIVOT_FRACTION (qsort.c:59, source value 0.999f) in thousandths
MAX_PIVOT_FRACTION_x1000 == 600

\* ------------------------------------------------------------------------
\* Records, comparators and the elementary moves of qsort.c
\* ------------------------------------------------------------------------
MIN(x, y) == IF x < y THEN x ELSE y
MAX(x, y) == IF x > y THEN x ELSE y

At(a, i) == a[i + 1]

\* strcmp on lines: lexicographic on character codes, the terminating 0
\* of the shorter string comparing below every character.
RECURSIVE strcmp(_, _)
strcmp(s1, s2) ==
  IF s1 = << >> /\ s2 = << >> THEN 0
  ELSE IF s1 = << >> THEN -1
  ELSE IF s2 = << >> THEN 1
  ELSE IF Head(s1) < Head(s2) THEN -1
  ELSE IF Head(s1) > Head(s2) THEN 1
  ELSE strcmp(Tail(s1), Tail(s2))

\* The number parser used by the numeric comparators (strtod; nsort.c binds
\* the name to fast_strtod of atof.c).  Decimal numbers only: optional white
\* space, optional sign, digits with an optional fraction.  The result is
\* [ok, num, den]: ok is FALSE when no number was found (endptr = start),
\* otherwise the value is num/den with den a power of ten.
isspace(c) == c \in {9, 10, 11, 12, 13, 32}
isdigit(c) == c \in 48..57

RECURSIVE skipspace(_)
skipspace(s) == IF s # << >> /\ isspace(Head(s)) THEN skipspace(Tail(s)) ELSE s

\* a run of digits continuing the number num/den; cnt counts the digits
RECURSIVE parsedigits(_, _, _, _)
parsedigits(s, num, den, cnt) ==
  IF s # << >> /\ isdigit(Head(s))
  THEN parsedigits(Tail(s), num * 10 + (Head(s) - 48), den * 10, cnt + 1)
  ELSE [rest |-> s, num |-> num, den |-> den, cnt |-> cnt]

\* the fraction after the integer part ip, if a '.' follows it
strtod_frac(ip) ==
  IF ip.rest # << >> /\ Head(ip.rest) = 46
  THEN parsedigits(Tail(ip.rest), ip.num, 1, ip.cnt)
  ELSE [rest |-> ip.rest, num |-> ip.num, den |-> 1, cnt |-> ip.cnt]

strtod_val(neg, fp) ==
  [ok |-> fp.cnt > 0, num |-> IF neg THEN 0 - fp.num ELSE fp.num, den |-> fp.den]

\* the number at s1, where the white space has been skipped
strtod_signed(s1) ==
  IF s1 # << >> /\ Head(s1) \in {43, 45}
  THEN strtod_val(Head(s1) = 45, strtod_frac(parsedigits(Tail(s1), 0, 1, 0)))
  ELSE strtod_val(FALSE, strtod_frac(parsedigits(s1, 0, 1, 0)))

strtod(s) == strtod_signed(skipspace(s))

\* v1 == v2 and v1 < v2 on the parsed keys; a line without a number has the
\* key -DBL_MAX, below every number a line of the model can hold.
keyeq(v1, v2) ==
  IF v1.ok /\ v2.ok THEN v1.num * v2.den = v2.num * v1.den
  ELSE v1.ok = v2.ok
keylt(v1, v2) ==
  IF v1.ok /\ v2.ok THEN v1.num * v2.den < v2.num * v1.den
  ELSE (~v1.ok) /\ v2.ok

\* the end of a numeric comparator without the comparison of the lines:
\* lines with equal numbers compare equal
numcmp_keyonly(v1, v2, a, b) ==
  IF keyeq(v1, v2) THEN 0
  ELSE IF keylt(v1, v2) THEN -1 ELSE 1

\* the end of both numeric comparators: if (n1 == n2) return strcmp(a, b);
\* else if (n1 < n2) return -1; else return 1;
numcmp(v1, v2, a, b) ==
  IF keyeq(v1, v2) THEN strcmp(a, b)
  ELSE IF keylt(v1, v2) THEN -1 ELSE 1

mysCompare(p1, p2) == strcmp(p1, p2)

mynCompare(a, b) == numcmp(strtod(a), strtod(b), a, b)

\* while (isspace(*s)) ++s; if (*s == '"') ++s;
skipquote(w) == IF w # << >> /\ Head(w) = 34 THEN Tail(w) ELSE w

mynqCompare(a, b) ==
  numcmp(strtod(skipquote(skipspace(a))), strtod(skipquote(skipspace(b))), a, b)

\* A caller-supplied total comparator on <<key, id>> records: orders by key
\* alone, so records with equal keys compare equal although they differ.
byKey(x, y) == IF x[1] < y[1] THEN -1 ELSE IF x[1] > y[1] THEN 1 ELSE 0

\* A comparator argument (cmp_t *cmp) is a function on pairs of records;
\* CmpFn gives the function for the name of a comparator.
Rec == Int \X Int
Line == Seq(Int)
\* comparators that are no total order: everything is less than anything,
\* everything is greater, the keys go round in a circle of three, and a
\* result taken from both records that is neither reflexive nor
\* antisymmetric nor transitive
cmpLess(x, y) == 0 - 1
cmpGreater(x, y) == 1
cmpCyclic(x, y) ==
  IF (x[1] - y[1]) % 3 = 0 THEN 0 ELSE IF (x[1] - y[1]) % 3 = 1 THEN 1 ELSE 0 - 1
cmpScramble(x, y) == ((x[1] + 2 * y[1] + x[2] * y[2]) % 3) - 1

CmpFn(name) ==
  CASE name = "byKey" -> [p \in Rec \X Rec |-> byKey(p[1], p[2])]
    [] name = "less" -> [p \in Rec \X Rec |-> cmpLess(p[1], p[2])]
    [] name = "greater" -> [p \in Rec \X Rec |-> cmpGreater(p[1], p[2])]
    [] name = "cyclic" -> [p \in Rec \X Rec |-> cmpCyclic(p[1], p[2])]
    [] name = "scramble" -> [p \in Rec \X Rec |-> cmpScramble(p[1], p[2])]
    [] name = "mysCompare" -> [p \in Line \X Line |-> mysCompare(p[1], p[2])]
    [] name = "mynCompare" -> [p \in Line \X Line |-> mynCompare(p[1], p[2])]
    [] name = "mynqCompare" -> [p \in Line \X Line |-> mynqCompare(p[1], p[2])]

\* CMP(x, y) of qsort.c: (*cmp)(x, y)
CMP(cmp, x, y) == cmp[<<x, y>>]

\* The array is the records a[0 .. n-1].  What lies outside it is not the
\* array's: a record read from there by a swap or a move is Outside, which
\* is none of the array's records, and a record written there is gone
\* from the array.
Outside == <<0 - 1, 0>>

Rd(a, i) == IF i >= 0 /\ i < Len(a) THEN a[i + 1] ELSE Outside

swapfunc(a, i, j) == [a EXCEPT ![i + 1] = Rd(a, j), ![j + 1] = Rd(a, i)]

\* memmove(a+dst, a+src, cnt records) inside one array
memmove(a, dst, src, cnt) ==
  SubSeq([k \in 1..Len(a) |->
            IF (k - 1) >= dst /\ (k - 1) < dst + cnt THEN Rd(a, (k - 1) - dst + src)
            ELSE a[k]], 1, Len(a))

\* a vecswap that copies the second block over the first and leaves the
\* second as it was (the records of the first block are lost)
vecswap_copy(a, i, j, cnt) ==
  SubSeq([k \in 1..Len(a) |->
            IF (k - 1) >= i /\ (k - 1) < i + cnt THEN a[(k - 1) - i + j + 1]
            ELSE a[k]], 1, Len(a))

\* a vecswap that exchanges one record more than it was asked to
vecswap_over(a, i, j, cnt) ==
  SubSeq([k \in 1..Len(a) |->
            IF (k - 1) >= i /\ (k - 1) <= i + cnt THEN Rd(a, (k - 1) - i + j)
            ELSE IF (k - 1) >= j /\ (k - 1) <= j + cnt THEN Rd(a, (k - 1) - j + i)
            ELSE a[k]], 1, Len(a))

\* vecswap(a+i, a+j, cnt records): the two blocks never overlap
vecswap(a, i, j, cnt) ==
  SubSeq([k \in 1..Len(a) |->
            IF (k - 1) >= i /\ (k - 1) < i + cnt THEN Rd(a, (k - 1) - i + j)
            ELSE IF (k - 1) >= j /\ (k - 1) < j + cnt THEN Rd(a, (k - 1) - j + i)
            ELSE a[k]], 1, Len(a))

\* the record-size specialised paths are taken for es = 8 and es = 4
wordsize(es) == es \in {4, 8}

\* ------------------------------------------------------------------------
\* Loops.  A loop of the source is modelled by its body as a step on the
\* loop state and an operator that repeats the step while the loop condition
\* holds.  The repetition is split in halves (k is an upper bound on the
\* number of passes), which keeps the evaluation depth logarithmic; a for
\* loop over a fixed index range is split the same way over the range.
\* Each of these operators looks at its loop state first (Len(a) = 0 where
\* the loop has no condition on the array), so that the state is a value
\* before the next pass starts.  A value used more than once is passed as an
\* argument of a helper operator.
\* ------------------------------------------------------------------------

\* ------------------------------------------------------------------------
\* small_sortq: insertion sort of a whole segment (qsort.c:410-456)
\* ------------------------------------------------------------------------
\* do { j -= zes; } while (j >= a && CMP(j, &t) > 0) after the first j -= zes:
\* the index the scan stops at, from j downwards
RECURSIVE ss_scan(_, _, _, _, _)
ss_scan(a, j, t, cmp, k) ==
  IF ~(j >= 0 /\ CMP(cmp, At(a, j), t) > 0) THEN j
  ELSE IF k <= 1 THEN j - 1
  ELSE ss_scan(a, ss_scan(a, j, t, cmp, k \div 2), t, cmp, k - k \div 2)

\* memmove(j + 2*zes, j + zes, p - j); *(j + zes) = t, j the index the scan
\* stopped at
ss_place(a, p, j, t) == [memmove(a, j + 2, j + 1, p - j) EXCEPT ![j + 2] = t]

\* es = 8 and es = 4: the body of for (p = a; p < a+(n-1)*zes; p += zes)
ss_word_step(a, p, cmp) ==
  IF CMP(cmp, At(a, p), At(a, p + 1)) > 0
  THEN ss_place(a, p, ss_scan(a, p - 1, At(a, p + 1), cmp, p + 1), At(a, p + 1))
  ELSE a

RECURSIVE ss_word(_, _, _, _)
ss_word(a, lo, hi, cmp) ==
  IF lo > hi \/ Len(a) = 0 THEN a
  ELSE IF lo = hi THEN ss_word_step(a, lo, cmp)
  ELSE ss_word(ss_word(a, lo, (lo + hi) \div 2, cmp), (lo + hi) \div 2 + 1, hi, cmp)

\* a sink loop that also takes a record past the records equal to it
RECURSIVE ss_sink_equal(_, _, _)
ss_sink_equal(s, cmp, k) ==
  IF ~(s.pl > 0 /\ CMP(cmp, At(s.a, s.pl - 1), At(s.a, s.pl)) >= 0) THEN s
  ELSE IF k <= 1 THEN [a |-> swapfunc(s.a, s.pl, s.pl - 1), pl |-> s.pl - 1]
  ELSE ss_sink_equal(ss_sink_equal(s, cmp, k \div 2), cmp, k - k \div 2)

\* other sizes: for (pl = pm; pl > a && CMP(pl - es, pl) > 0; pl -= es) swap;
\* the loop state is [a, pl]
RECURSIVE ss_sink(_, _, _)
ss_sink(s, cmp, k) ==
  IF ~(s.pl > 0 /\ CMP(cmp, At(s.a, s.pl - 1), At(s.a, s.pl)) > 0) THEN s
  ELSE IF k <= 1 THEN [a |-> swapfunc(s.a, s.pl, s.pl - 1), pl |-> s.pl - 1]
  ELSE ss_sink(ss_sink(s, cmp, k \div 2), cmp, k - k \div 2)

\* for (pm = a + es; pm < a + n*es; pm += es) <sink pm>
RECURSIVE ss_gen(_, _, _, _)
ss_gen(a, lo, hi, cmp) ==
  IF lo > hi \/ Len(a) = 0 THEN a
  ELSE IF lo = hi THEN ss_sink([a |-> a, pl |-> lo], cmp, lo + 1).a
  ELSE ss_gen(ss_gen(a, lo, (lo + hi) \div 2, cmp), (lo + hi) \div 2 + 1, hi, cmp)

small_sortq(a, es, cmp) ==
  IF wordsize(es) THEN ss_word(a, 0, Len(a) - 2, cmp)
  ELSE ss_gen(a, 1, Len(a) - 1, cmp)

\* ------------------------------------------------------------------------
\* The bounded insertion attempt at the head of the driver loop
\* (qsort.c:583-665).  Loop state: [a, swap_cnt, done]; done = FALSE is
\* "goto do_qsort", after which the remaining passes do nothing.
\* ------------------------------------------------------------------------
\* for (h = i-2; h >= 0 && CMP(a+h*zes, &t) > 0; h--);
RECURSIVE bi_linear(_, _, _, _, _)
bi_linear(a, h, t, cmp, k) ==
  IF ~(h >= 0 /\ CMP(cmp, At(a, h), t) > 0) THEN h
  ELSE IF k <= 1 THEN h - 1
  ELSE bi_linear(a, bi_linear(a, h, t, cmp, k \div 2), t, cmp, k - k \div 2)

\* for (l = -1, h = i; h - l > 1;) { j = l+(h-l)/2; if (CMP(&t,a+j)<0) h=j; else l=j; }
RECURSIVE bi_binary(_, _, _, _, _)
bi_binary(a, l, h, t, cmp) ==
  IF h - l > 1
  THEN IF CMP(cmp, t, At(a, l + (h - l) \div 2)) < 0
       THEN bi_binary(a, l, l + (h - l) \div 2, t, cmp)
       ELSE bi_binary(a, l + (h - l) \div 2, h, t, cmp)
  ELSE h

\* the index h at which t = a[i] goes: linear search close to the start,
\* binary search otherwise
bi_find(a, i, cmp) ==
  IF i < USE_SMALL_SORT THEN bi_linear(a, i - 2, At(a, i), cmp, i) + 1
  ELSE bi_binary(a, 0 - 1, i, At(a, i), cmp)

\* memmove(a+(h+1)*zes, a+h*zes, (i-h)*zes); a[h] = t;
bi_place(a, i, h, t) == [memmove(a, h + 1, h, i - h) EXCEPT ![h + 1] = t]

\* a scan that gives up one record early: if (++swap_cnt >= MAX_INS_MOVES)
bi_word_step_early(s, i, cmp) ==
  IF ~s.done THEN s
  ELSE IF CMP(cmp, At(s.a, i), At(s.a, i - 1)) < 0
  THEN IF s.swap_cnt + 1 >= MAX_INS_MOVES
       THEN [a |-> s.a, swap_cnt |-> s.swap_cnt + 1, done |-> FALSE]
       ELSE IF i = 1
       THEN [a |-> swapfunc(s.a, 0, 1), swap_cnt |-> s.swap_cnt + 1, done |-> TRUE]
       ELSE [a |-> bi_place(s.a, i, bi_find(s.a, i, cmp), At(s.a, i)),
             swap_cnt |-> s.swap_cnt + 1, done |-> TRUE]
  ELSE s

\* es = 8 and es = 4: the body of for (i = 1; i < n; ++i)
bi_word_step(s, i, cmp) ==
  IF ~s.done THEN s
  ELSE IF CMP(cmp, At(s.a, i), At(s.a, i - 1)) < 0
  THEN IF s.swap_cnt + 1 > MAX_INS_MOVES
       THEN [a |-> s.a, swap_cnt |-> s.swap_cnt + 1, done |-> FALSE]
       ELSE IF i = 1
       THEN [a |-> swapfunc(s.a, 0, 1), swap_cnt |-> s.swap_cnt + 1, done |-> TRUE]
       ELSE [a |-> bi_place(s.a, i, bi_find(s.a, i, cmp), At(s.a, i)),
             swap_cnt |-> s.swap_cnt + 1, done |-> TRUE]
  ELSE s

\* other sizes: the body of for (pm = a + es; pm < a + n*es; pm += es):
\* if (pm > a && CMP(pm-es, pm) > 0 && ++swap_cnt > MAX_INS_MOVES) goto
\* do_qsort; then the sink loop, which moves nothing when the pair is in order
bi_gen_step(s, pm, cmp) ==
  IF ~s.done THEN s
  ELSE IF pm > 0 /\ CMP(cmp, At(s.a, pm - 1), At(s.a, pm)) > 0
  THEN IF s.swap_cnt + 1 > MAX_INS_MOVES
       THEN [a |-> s.a, swap_cnt |-> s.swap_cnt + 1, done |-> FALSE]
       ELSE [a |-> ss_sink([a |-> s.a, pl |-> pm], cmp, pm + 1).a,
             swap_cnt |-> s.swap_cnt + 1, done |-> TRUE]
  ELSE s

\* the for loop over i (pm) from lo to hi
RECURSIVE bi_for(_, _, _, _, _)
bi_for(s, lo, hi, es, cmp) ==
  IF lo > hi \/ ~s.done THEN s
  ELSE IF lo = hi
  THEN IF wordsize(es) THEN bi_word_step(s, lo, cmp) ELSE bi_gen_step(s, lo, cmp)
  ELSE bi_for(bi_for(s, lo, (lo + hi) \div 2, es, cmp), (lo + hi) \div 2 + 1, hi,
              es, cmp)

\* Result: [a, swap_cnt, done]
bounded_insertion(a, es, cmp) ==
  bi_for([a |-> a, swap_cnt |-> 0, done |-> TRUE], 1, Len(a) - 1, es, cmp)

\* ------------------------------------------------------------------------
\* heapsort (heapsort.c).  The heap is 1-indexed (base = vbase - size), as
\* the positions of a sequence are.
\* ------------------------------------------------------------------------
\* child_i = par_i * 2; if (child_i < nmemb && compar(child, child + size) < 0)
\* ++child_i: the larger child of par_i
hs_child(a, par_i, nmemb, cmp) ==
  IF par_i * 2 < nmemb /\ CMP(cmp, a[par_i * 2], a[par_i * 2 + 1]) < 0
  THEN par_i * 2 + 1 ELSE par_i * 2

\* CREATE(initval, nmemb, ...): sift par_i down by swaps; hs_create_at is the
\* body of its loop below the choice of child_i
RECURSIVE hs_create(_, _, _, _)
RECURSIVE hs_create_at(_, _, _, _, _)
hs_create(a, par_i, nmemb, cmp) ==
  IF par_i * 2 > nmemb THEN a
  ELSE hs_create_at(a, par_i, hs_child(a, par_i, nmemb, cmp), nmemb, cmp)

hs_create_at(a, par_i, child_i, nmemb, cmp) ==
  IF CMP(cmp, a[child_i], a[par_i]) <= 0 THEN a
  ELSE hs_create([a EXCEPT ![par_i] = a[child_i], ![child_i] = a[par_i]],
                 child_i, nmemb, cmp)

\* for (l = nmemb / 2 + 1; --l;) CREATE(l, nmemb, ...): l from hi down to lo
RECURSIVE hs_build(_, _, _, _)
hs_build(a, lo, hi, cmp) ==
  IF lo > hi \/ Len(a) = 0 THEN a
  ELSE IF lo = hi THEN hs_create(a, lo, Len(a), cmp)
  ELSE hs_build(hs_build(a, (lo + hi) \div 2 + 1, hi, cmp), lo, (lo + hi) \div 2, cmp)

\* SELECT, first loop: copy the larger child over its parent down to a leaf;
\* the result is [a, par_i], par_i the position of the hole
RECURSIVE hs_down(_, _, _, _)
RECURSIVE hs_down_at(_, _, _, _, _)
hs_down(a, par_i, nmemb, cmp) ==
  IF par_i * 2 > nmemb THEN [a |-> a, par_i |-> par_i]
  ELSE hs_down_at(a, par_i, hs_child(a, par_i, nmemb, cmp), nmemb, cmp)

hs_down_at(a, par_i, child_i, nmemb, cmp) ==
  hs_down([a EXCEPT ![par_i] = a[child_i]], child_i, nmemb, cmp)

\* SELECT, second loop: climb from the hole until k fits
RECURSIVE hs_up(_, _, _, _)
hs_up(a, child_i, k, cmp) ==
  IF child_i = 1 \/ CMP(cmp, k, a[child_i \div 2]) < 0
  THEN [a EXCEPT ![child_i] = k]
  ELSE hs_up([a EXCEPT ![child_i] = a[child_i \div 2]], child_i \div 2, k, cmp)

\* the second loop started from the hole d = [a, par_i] the first one left
hs_up_from(d, k, cmp) == hs_up(d.a, d.par_i, k, cmp)

\* the body of while (nmemb > 1): k = a[nmemb]; a[nmemb] = a[1]; --nmemb; SELECT
hs_select_step(a, nmemb, cmp) ==
  hs_up_from(hs_down([a EXCEPT ![nmemb] = a[1]], 1, nmemb - 1, cmp), a[nmemb], cmp)

\* while (nmemb > 1) <step>: nmemb from hi down to lo
RECURSIVE hs_select(_, _, _, _)
hs_select(a, lo, hi, cmp) ==
  IF lo > hi \/ Len(a) = 0 THEN a
  ELSE IF lo = hi THEN hs_select_step(a, lo, cmp)
  ELSE hs_select(hs_select(a, (lo + hi) \div 2 + 1, hi, cmp), lo, (lo + hi) \div 2,
                 cmp)

\* heapsort(vbase, nmemb, size, compar): [ret, a].  mallocOK is the outcome
\* of malloc(size), called only for size > 8.
\* a heapsort that asks for its scratch record only after it has built
\* the heap
heapsort_late(a, size, cmp, mallocOK) ==
  IF Len(a) <= 1 THEN [ret |-> 0, a |-> a]
  ELSE IF size = 0 THEN [ret |-> 0 - 1, a |-> a]
  ELSE IF size > 8 /\ ~mallocOK
  THEN [ret |-> 0 - 1, a |-> hs_build(a, 1, Len(a) \div 2, cmp)]
  ELSE [ret |-> 0,
        a |-> hs_select(hs_build(a, 1, Len(a) \div 2, cmp), 2, Len(a), cmp)]

heapsort(a, size, cmp, mallocOK) ==
  IF Len(a) <= 1 THEN [ret |-> 0, a |-> a]
  ELSE IF size = 0 THEN [ret |-> 0 - 1, a |-> a]
  ELSE IF size > 8 /\ ~mallocOK THEN [ret |-> 0 - 1, a |-> a]
  ELSE [ret |-> 0,
        a |-> hs_select(hs_build(a, 1, Len(a) \div 2, cmp), 2, Len(a), cmp)]

\* ------------------------------------------------------------------------
\* Median networks (qsort.c:472-546).  Zv(x, y) orders p[x], p[y]; p is at
\* C index off of the array.
\* ------------------------------------------------------------------------
Zv(a, off, x, y, cmp) ==
  IF CMP(cmp, At(a, off + x), At(a, off + y)) > 0
  THEN swapfunc(a, off + x, off + y) ELSE a

\* the exchanges net[lo..hi] in order
RECURSIVE ZvAll(_, _, _, _, _, _)
ZvAll(a, off, net, lo, hi, cmp) ==
  IF lo > hi \/ Len(a) = 0 THEN a
  ELSE IF lo = hi THEN Zv(a, off, net[lo][1], net[lo][2], cmp)
  ELSE ZvAll(ZvAll(a, off, net, lo, (lo + hi) \div 2, cmp), off, net,
             (lo + hi) \div 2 + 1, hi, cmp)

Net9 ==
  << <<1,2>>, <<4,5>>, <<7,8>>,
     <<0,1>>, <<3,4>>, <<6,7>>,
     <<1,2>>, <<4,5>>, <<7,8>>,
     <<0,3>>, <<5,8>>, <<4,7>>,
     <<3,6>>, <<1,4>>, <<2,5>>,
     <<4,7>>, <<4,2>>, <<6,4>>,
     <<4,2>> >>

Net25 ==
  << <<0,1>>, <<3,4>>, <<2,4>>,
     <<2,3>>, <<6,7>>, <<5,7>>,
     <<5,6>>, <<9,10>>, <<8,10>>,
     <<8,9>>, <<12,13>>, <<11,13>>,
     <<11,12>>, <<15,16>>, <<14,16>>,
     <<14,15>>, <<18,19>>, <<17,19>>,
     <<17,18>>, <<21,22>>, <<20,22>>,
     <<20,21>>, <<23,24>>, <<2,5>>,
     <<3,6>>, <<0,6>>, <<0,3>>,
     <<4,7>>, <<1,7>>, <<1,4>>,
     <<11,14>>, <<8,14>>, <<8,11>>,
     <<12,15>>, <<9,15>>, <<9,12>>,
     <<13,16>>, <<10,16>>, <<10,13>>,
     <<20,23>>, <<17,23>>, <<17,20>>,
     <<21,24>>, <<18,24>>, <<18,21>>,
     <<19,22>>, <<8,17>>, <<9,18>>,
     <<0,18>>, <<0,9>>, <<10,19>>,
     <<1,19>>, <<1,10>>, <<11,20>>,
     <<2,20>>, <<2,11>>, <<12,21>>,
     <<3,21>>, <<3,12>>, <<13,22>>,
     <<4,22>>, <<4,13>>, <<14,23>>,
     <<5,23>>, <<5,14>>, <<15,24>>,
     <<6,24>>, <<6,15>>, <<7,16>>,
     <<7,19>>, <<13,21>>, <<15,23>>,
     <<7,13>>, <<7,15>>, <<1,9>>,
     <<3,11>>, <<5,17>>, <<11,17>>,
     <<9,17>>, <<4,10>>, <<6,12>>,
     <<7,14>>, <<4,6>>, <<4,7>>,
     <<12,14>>, <<10,14>>, <<6,7>>,
     <<10,12>>, <<6,10>>, <<6,17>>,
     <<12,17>>, <<7,17>>, <<7,10>>,
     <<12,18>>, <<7,12>>, <<10,18>>,
     <<12,20>>, <<10,20>>, <<10,12>> >>

\* opt_med9 without its last exchange, Zv(4, 2)
opt_med9_short(a, off, cmp) == ZvAll(a, off, Net9, 1, Len(Net9) - 1, cmp)

opt_med9(a, off, cmp) == ZvAll(a, off, Net9, 1, Len(Net9), cmp)
opt_med25(a, off, cmp) == ZvAll(a, off, Net25, 1, Len(Net25), cmp)

\* ------------------------------------------------------------------------
\* Pivot selection (qsort.c:683-855): the pivot ends at index 0
\* ------------------------------------------------------------------------
\* small_sortq(a + off, n, es, cmp) on a part of the segment
small_sortq_at(a, off, n, es, cmp) ==
  SubSeq(a, 1, off) \o small_sortq(SubSeq(a, off + 1, off + n), es, cmp)
    \o SubSeq(a, off + n + 1, Len(a))

\* for (i = 1; i < 25; i++) swapfunc(a+i*es, a+i*d, es): i from lo to hi
RECURSIVE sample25(_, _, _, _)
sample25(a, d, lo, hi) ==
  IF lo > hi \/ Len(a) = 0 THEN a
  ELSE IF lo = hi THEN swapfunc(a, lo, lo * d)
  ELSE sample25(sample25(a, d, lo, (lo + hi) \div 2), d, (lo + hi) \div 2 + 1, hi)

\* d = (n-1)/24; <sample>; opt_med25(a, ...); swapfunc(a, a + 12*es, es)
pivot_med25(a, cmp) ==
  swapfunc(opt_med25(sample25(a, (Len(a) - 1) \div 24, 1, 24), 0, cmp), 0, 12)

\* the nine samples of the median of 9 brought to a[1..8] (a[0] is the
\* first): pm = a + (n/2)*es, pn = a + (n-1)*es, d = (n/8)*es
sample9(a, pm, pn, d) ==
  swapfunc(swapfunc(swapfunc(swapfunc(swapfunc(swapfunc(swapfunc(swapfunc(
    a, d, 1), 2 * d, 2), pm - d, 3), pm, 4), pm + d, 5), pn - 2 * d, 6),
    pn - d, 7), pn, 8)

pivot_med9(a, cmp) ==
  swapfunc(opt_med9(sample9(a, Len(a) \div 2, Len(a) - 1, Len(a) \div 8), 0, cmp),
           0, 4)

\* The last, partial block of a pass of the median of medians.  Its state
\* is [a, p1, p2, nos, brk]: p1 counts the medians stored at the start of the
\* array, p2 is the index the block starts at, nos is nos_left.
\* if (((p1-a)/es & 1) == 0 && nos_left >= 11) { opt_med9(p2); swapfunc(p1,
\* p2+4*es); p1 += es; p2 += 9*es; nos_left -= 9; }
mm_odd9(s, cmp) ==
  IF s.p1 % 2 = 0 /\ s.nos >= 11
  THEN [s EXCEPT !.a = swapfunc(opt_med9(s.a, s.p2, cmp), s.p1, s.p2 + 4),
                 !.p1 = s.p1 + 1, !.p2 = s.p2 + 9, !.nos = s.nos - 9]
  ELSE s

\* small_sortq(p2, m, es, cmp); swapfunc(p1, p2 + es*((m-1)/2), es); p1 += es;
\* for the m records at p2
mm_half(s, m, es, cmp) ==
  [s EXCEPT !.a = swapfunc(small_sortq_at(s.a, s.p2, m, es, cmp), s.p1,
                           s.p2 + (m - 1) \div 2),
            !.p1 = s.p1 + 1, !.p2 = s.p2 + m, !.nos = s.nos - m]

\* the second half is what the first one left
mm_rest(s, es, cmp) == mm_half(s, s.nos, es, cmp)

\* n2 = nos_left/2; <first half of n2>; <second half of nos_left - n2>; break;
mm_halves(s, es, cmp) ==
  [mm_rest(mm_half(s, s.nos \div 2, es, cmp), es, cmp) EXCEPT !.brk = TRUE]

mm_lastblock(s, es, cmp) == mm_halves(mm_odd9(s, cmp), es, cmp)

\* the body of for (p2 = a; p2 < a+(n1-24)*es; p2 += 25*es) {...}; brk = TRUE
\* after the break that follows the last block
mm_step(s, n1, es, cmp) ==
  IF s.p2 >= n1 - 49 /\ n1 - s.p2 # 25
  THEN mm_lastblock([s EXCEPT !.nos = n1 - s.p2], es, cmp)
  ELSE [s EXCEPT !.a = swapfunc(opt_med25(s.a, s.p2, cmp), s.p1, s.p2 + 12),
                 !.p1 = s.p1 + 1, !.p2 = s.p2 + 25]

RECURSIVE mm_rep(_, _, _, _, _)
mm_rep(s, n1, es, cmp, k) ==
  IF s.brk \/ ~(s.p2 < n1 - 24) THEN s
  ELSE IF k <= 1 THEN mm_step(s, n1, es, cmp)
  ELSE mm_rep(mm_rep(s, n1, es, cmp, k \div 2), n1, es, cmp, k - k \div 2)

\* one pass over the first n1 records: p1 = a; for (...) {...}
mm_pass(a, n1, es, cmp) ==
  mm_rep([a |-> a, p1 |-> 0, p2 |-> 0, nos |-> 0, brk |-> FALSE], n1, es, cmp,
         n1 \div 25 + 1)

\* while (n1 > 50) { <pass>; n1 /= 25; } on the state [a, p1, n1]
mm_next(r, n1) == [a |-> r.a, p1 |-> r.p1, n1 |-> n1 \div 25]

RECURSIVE mm_levels(_, _, _)
mm_levels(s, es, cmp) ==
  IF s.n1 > 50 THEN mm_levels(mm_next(mm_pass(s.a, s.n1, es, cmp), s.n1), es, cmp)
  ELSE s

\* if (n1 > 1) { small_sortq(a, n1, es, cmp); if (n1 > 2) swapfunc(a,
\* a + ((n1-1)/2)*es, es); }
mm_final(a, n1, es, cmp) ==
  IF n1 > 2 THEN swapfunc(small_sortq_at(a, 0, n1, es, cmp), 0, (n1 - 1) \div 2)
  ELSE IF n1 > 1 THEN small_sortq_at(a, 0, n1, es, cmp)
  ELSE a

\* if (p1 != a) n1 = (p1 - a)/es; then the final median
mm_finish(r, es, cmp) ==
  mm_final(r.a, IF r.p1 # 0 THEN r.p1 ELSE r.n1, es, cmp)

pivot_robust(a, es, cmp) ==
  mm_finish(mm_levels([a |-> a, p1 |-> 0, n1 |-> Len(a)], es, cmp), es, cmp)

\* pivot_fraction is kept exact as the fraction num/den; the comparison
\* pivot_fraction > MAX_PIVOT_FRACTION is cross-multiplied.
pf_bad(pf) == pf.num * 1000 > MAX_PIVOT_FRACTION_x1000 * pf.den

select_pivot(a, es, cmp, pf) ==
  IF pf_bad(pf) THEN pivot_robust(a, es, cmp)
  ELSE IF Len(a) >= USE_MEDIAN25 THEN pivot_med25(a, cmp)
  ELSE pivot_med9(a, cmp)

pivot_path(n, pf) ==
  IF pf_bad(pf) THEN "robust"
  ELSE IF n >= USE_MEDIAN25 THEN "med25" ELSE "med9"

\* ------------------------------------------------------------------------
\* Three-way partition around a[0] (qsort.c:857-920)
\* ------------------------------------------------------------------------
\* Loop state of the partition: [a, pa, pb, pc, pd, brk].
\* while (pb <= pc && (cmp_result = CMP(pb, a)) <= 0) { if (cmp_result == 0)
\* { swap(pa, pb); pa += es; } pb += es; }
RECURSIVE pt_left(_, _, _)
pt_left(s, cmp, k) ==
  IF ~(s.pb <= s.pc /\ CMP(cmp, At(s.a, s.pb), At(s.a, 0)) <= 0) THEN s
  ELSE IF k <= 1
  THEN IF CMP(cmp, At(s.a, s.pb), At(s.a, 0)) = 0
       THEN [s EXCEPT !.a = swapfunc(s.a, s.pa, s.pb), !.pa = s.pa + 1,
                      !.pb = s.pb + 1]
       ELSE [s EXCEPT !.pb = s.pb + 1]
  ELSE pt_left(pt_left(s, cmp, k \div 2), cmp, k - k \div 2)

\* while (pb <= pc && (cmp_result = CMP(pc, a)) >= 0) { if (cmp_result == 0)
\* { swap(pc, pd); pd -= es; } pc -= es; }
RECURSIVE pt_right(_, _, _)
pt_right(s, cmp, k) ==
  IF ~(s.pb <= s.pc /\ CMP(cmp, At(s.a, s.pc), At(s.a, 0)) >= 0) THEN s
  ELSE IF k <= 1
  THEN IF CMP(cmp, At(s.a, s.pc), At(s.a, 0)) = 0
       THEN [s EXCEPT !.a = swapfunc(s.a, s.pc, s.pd), !.pd = s.pd - 1,
                      !.pc = s.pc - 1]
       ELSE [s EXCEPT !.pc = s.pc - 1]
  ELSE pt_right(pt_right(s, cmp, k \div 2), cmp, k - k \div 2)

\* the end of the body of for (;;): if (pb > pc) break; swap(pb, pc);
\* pb += es; pc -= es;
pt_swap(s) ==
  IF s.pb > s.pc THEN [s EXCEPT !.brk = TRUE]
  ELSE [s EXCEPT !.a = swapfunc(s.a, s.pb, s.pc), !.pb = s.pb + 1,
                 !.pc = s.pc - 1]

\* the body of for (;;): both scans (neither makes more than n passes), then
\* the break or the swap
pt_step(s, cmp) ==
  pt_swap(pt_right(pt_left(s, cmp, Len(s.a)), cmp, Len(s.a)))

RECURSIVE pt_loop(_, _, _)
pt_loop(s, cmp, k) ==
  IF s.brk THEN s
  ELSE IF k <= 1 THEN pt_step(s, cmp)
  ELSE pt_loop(pt_loop(s, cmp, k \div 2), cmp, k - k \div 2)

\* pn = a + n*es; d1 = MIN(pa - a, pb - pa); vecswap(a, pb - d1, d1);
pt_vec1(p) ==
  IF MIN(p.pa, p.pb - p.pa) > 0
  THEN vecswap(p.a, 0, p.pb - MIN(p.pa, p.pb - p.pa), MIN(p.pa, p.pb - p.pa))
  ELSE p.a

\* a partition that leaves out the second vecswap
pt_vec2_none(p, a1) == a1

\* d2 = MIN(pd - pc, pn - pd - es); vecswap(pb, pn - d2, d2); on the array a1
\* left by the first vecswap
pt_vec2(p, a1) ==
  IF MIN(p.pd - p.pc, Len(a1) - p.pd - 1) > 0
  THEN vecswap(a1, p.pb, Len(a1) - MIN(p.pd - p.pc, Len(a1) - p.pd - 1),
               MIN(p.pd - p.pc, Len(a1) - p.pd - 1))
  ELSE a1

\* pivot_fraction = (MAX(pb-pa, pd-pc) - MIN(pb-pa, pd-pc) - (d1+d2)) / (es*n),
\* d1 and d2 still the two vecswap lengths; then d1 = pb - pa; d2 = pd - pc.
\* Result: [a, d1, d2, pf]: d1 and d2 are the record counts of the "<" and
\* ">" parts (the source holds them in bytes), pf the new pivot_fraction.
pt_result(p) ==
  [a |-> pt_vec2(p, pt_vec1(p)), d1 |-> p.pb - p.pa, d2 |-> p.pd - p.pc,
   pf |-> [num |-> MAX(p.pb - p.pa, p.pd - p.pc) - MIN(p.pb - p.pa, p.pd - p.pc)
                     - (MIN(p.pa, p.pb - p.pa)
                        + MIN(p.pd - p.pc, Len(p.a) - p.pd - 1)),
           den |-> Len(p.a)]]

partition(a, cmp) ==
  pt_result(pt_loop([a |-> a, pa |-> 1, pb |-> 1, pc |-> Len(a) - 1,
                     pd |-> Len(a) - 1, brk |-> FALSE], cmp, Len(a)))

\* ------------------------------------------------------------------------
\* The driver local_qsort (qsort.c:550-959)
\* ------------------------------------------------------------------------
RECURSIVE ilog2(_)
ilog2(n) == IF n < 2 THEN 0 ELSE 1 + ilog2(n \div 2)

RECURSIVE pow2(_)
pow2(e) == IF e = 0 THEN 1 ELSE 2 * pow2(e - 1)

\* INTROSORT_MULT * flog2(n) + 0.5 in units of 1/(100000 * p), for n with
\* exponent e and p = 2^e: flog2(n) reads off the float's bits the exponent
\* plus the mantissa fraction, (n - p)/p, plus 127 - 126.9671 = 0.0329
max_itn_at(n, e, p) ==
  (INTROSORT_MULT_x10 * (10000 * (e * p + (n - p)) + 329 * p) + 50000 * p)
    \div (100000 * p)

\* max_itn = (int)(INTROSORT_MULT * flog2(n) + 0.5f)
max_itn_of(n) == max_itn_at(n, ilog2(n), pow2(ilog2(n)))

pf_init == [num |-> 1, den |-> 2]

\* The result of one pass of the body of while (n > 1), up to the computation
\* of d1 and d2: [a, fin, path, itn, pf, d1, d2]; fin = TRUE is "goto sortend".
qs_end(a, path, itn, pf) ==
  [a |-> a, fin |-> TRUE, path |-> path, itn |-> itn, pf |-> pf, d1 |-> 0,
   d2 |-> 0]

qs_result(pt, path, itn) ==
  [a |-> pt.a, fin |-> FALSE, path |-> path, itn |-> itn, pf |-> pt.pf,
   d1 |-> pt.d1, d2 |-> pt.d2]

\* pivot selection and partition
qs_part(a, es, cmp, itn, pf, pre) ==
  qs_result(partition(select_pivot(a, es, cmp, pf), cmp),
            pre \o <<pivot_path(Len(a), pf)>>, itn)

\* the heapsort fallback with the return value of heapsort ignored: the
\* loop ends even when heapsort could not run
qs_after_heap_unchecked(hs, a, es, cmp, itn, pf) ==
  qs_end(hs.a, <<"heapsort">>, itn, pf)

\* the test of heapsort's return value the wrong way round: the loop ends
\* when heapsort failed and goes on when it has sorted the segment
qs_after_heap_inverted(hs, a, es, cmp, itn, pf) ==
  IF hs.ret # 0 THEN qs_end(hs.a, <<"heapfail">>, itn, pf)
  ELSE qs_part(hs.a, es, cmp, itn, pf, <<"heapsort">>)

\* if (heapsort(a, n, es, cmp) == 0) goto sortend; else the pass goes on
qs_after_heap(hs, a, es, cmp, itn, pf) ==
  IF hs.ret = 0 THEN qs_end(hs.a, <<"heapsort">>, itn, pf)
  ELSE qs_part(a, es, cmp, itn, pf, <<"heapfail">>)

\* a driver that gives up one pass late: if (itn++ > max_itn)
qs_after_ins_late(ins, es, cmp, itn, max_itn, pf, mallocOK) ==
  IF ins.done THEN qs_end(ins.a, <<"insertion">>, itn, pf)
  ELSE IF itn > max_itn
  THEN qs_after_heap(heapsort(ins.a, es, cmp, mallocOK), ins.a, es, cmp, itn + 1, pf)
  ELSE qs_part(ins.a, es, cmp, itn + 1, pf, << >>)

\* after the bounded insertion: goto sortend, or do_qsort: if (++itn > max_itn)
qs_after_ins(ins, es, cmp, itn, max_itn, pf, mallocOK) ==
  IF ins.done THEN qs_end(ins.a, <<"insertion">>, itn, pf)
  ELSE IF itn + 1 > max_itn
  THEN qs_after_heap(heapsort(ins.a, es, cmp, mallocOK), ins.a, es, cmp, itn + 1, pf)
  ELSE qs_part(ins.a, es, cmp, itn + 1, pf, << >>)

qs_iter(a, es, cmp, itn, max_itn, pf, mallocOK) ==
  IF Len(a) < USE_SMALL_SORT
  THEN qs_end(small_sortq(a, es, cmp), <<"small">>, itn, pf)
  ELSE qs_after_ins(bounded_insertion(a, es, cmp), es, cmp, itn, max_itn, pf,
                    mallocOK)

\* The partition sorted by a nested call or a new thread, and the one the
\* loop continues on, as [lo, n] inside the current segment (n = 0: none).
\* a driver that makes its nested call on the larger partition
child_seg_larger(r, n) ==
  IF r.d1 <= r.d2
  THEN [lo |-> n - r.d2, n |-> IF r.d2 > 1 THEN r.d2 ELSE 0]
  ELSE [lo |-> 0, n |-> IF r.d1 > 1 THEN r.d1 ELSE 0]

child_seg(r, n) ==
  IF r.d1 <= r.d2
  THEN [lo |-> 0, n |-> IF r.d1 > 1 THEN r.d1 ELSE 0]
  ELSE [lo |-> n - r.d2, n |-> IF r.d2 > 1 THEN r.d2 ELSE 0]

\* a driver loop that goes round again on the segment it had
cont_seg_whole(r, n) == [lo |-> 0, n |-> n]

\* a driver loop that goes on with the larger partition as if it were
\* the left one
cont_seg_left(r, n) ==
  [lo |-> 0, n |-> IF MAX(r.d1, r.d2) > 1 THEN MAX(r.d1, r.d2) ELSE 0]

cont_seg(r, n) ==
  IF r.d1 <= r.d2
  THEN [lo |-> n - r.d2, n |-> IF r.d2 > 1 THEN r.d2 ELSE 0]
  ELSE [lo |-> 0, n |-> IF r.d1 > 1 THEN r.d1 ELSE 0]

\* a driver that hands every child of a good partition to new_thread,
\* however few records it has
use_new_thread_any(pf, childn) == ~pf_bad(pf)

\* the child goes to new_thread unless the partition was bad or it is small
use_new_thread(pf, childn) == ~(pf_bad(pf) \/ childn < PAR_MIN_N)

splice(a, lo, s) ==
  SubSeq(a, 1, lo) \o s \o SubSeq(a, lo + Len(s) + 1, Len(a))

\* local_qsort run to completion by one thread (every child sorted in-line,
\* which is also what new_thread does when it finds no slot)
RECURSIVE local_qsort(_, _, _, _)
RECURSIVE qs_while(_, _, _, _, _, _, _)
RECURSIVE qs_recurse(_, _, _, _, _, _)
RECURSIVE qs_child(_, _, _, _, _)
RECURSIVE qs_cont(_, _, _, _, _, _, _)
local_qsort(a, es, cmp, mallocOK) ==
  IF Len(a) <= 1 THEN a
  ELSE qs_while(a, es, cmp, 0, max_itn_of(Len(a)), pf_init, mallocOK)

\* one pass of while (n > 1) and everything after it
qs_while(a, es, cmp, itn, max_itn, pf, mallocOK) ==
  qs_recurse(qs_iter(a, es, cmp, itn, max_itn, pf, mallocOK), Len(a), es, cmp,
             max_itn, mallocOK)

qs_recurse(r, n, es, cmp, max_itn, mallocOK) ==
  IF r.fin THEN r.a
  ELSE qs_cont(qs_child(r.a, child_seg(r, n), es, cmp, mallocOK), cont_seg(r, n),
               r, es, cmp, max_itn, mallocOK)

\* the nested call on the smaller partition
qs_child(a, ch, es, cmp, mallocOK) ==
  IF ch.n > 0
  THEN splice(a, ch.lo,
              local_qsort(SubSeq(a, ch.lo + 1, ch.lo + ch.n), es, cmp, mallocOK))
  ELSE a

\* the loop going on with the larger partition
qs_cont(a, co, r, es, cmp, max_itn, mallocOK) ==
  IF co.n > 0
  THEN splice(a, co.lo,
              qs_while(SubSeq(a, co.lo + 1, co.lo + co.n), es, cmp, r.itn,
                       max_itn, r.pf, mallocOK))
  ELSE a

\* qsort(a, n, es, cmp) (qsort.c:998-1020) as a function of the array
qsort(a, es, cmp, mallocOK) ==
  IF Len(a) <= 1 \/ es = 0 THEN a
  ELSE IF Len(a) < USE_SMALL_SORT THEN small_sortq(a, es, cmp)
  ELSE local_qsort(a, es, cmp, mallocOK)

\* ========================================================================
\* The line sorter (nsort.c)
\* ========================================================================
\* Configuration of nsort.c (scaled; the source values are in the comments)
MAXLINES == 2        \* nsort.c:109, source value 10000000
MAXSUBFILES == 3     \* nsort.c:110, source value 16
INIT_BUF_SIZE == 4   \* nsort.c:116, source value 256
BUF_SIZE_INC == 2    \* nsort.c:117, source value 128

\* sizeof lines[0]: the records nsort sorts are pointers to lines
PtrSize == 8

\* strchr(s, '\n') != NULL
has_nl(str) == \E k \in 1..Len(str) : str[k] = 10

\* fgets(buf, size, stream) on a stream holding data, pos of its characters
\* already read: at most size-1 characters, stopping after a newline; ok is
\* FALSE (fgets returns NULL, the buffer is left as it was) at end of file.
fgets_end(data, pos, size) ==
  IF \E k \in (pos + 1)..MIN(Len(data), pos + size - 1) : data[k] = 10
  THEN CHOOSE k \in (pos + 1)..MIN(Len(data), pos + size - 1) :
         /\ data[k] = 10
         /\ \A j \in (pos + 1)..(k - 1) : data[j] # 10
  ELSE MIN(Len(data), pos + size - 1)

fgets(data, pos, size) ==
  IF pos >= Len(data) THEN [ok |-> FALSE, str |-> << >>, pos |-> pos]
  ELSE [ok |-> TRUE, str |-> SubSeq(data, pos + 1, fgets_end(data, pos, size)),
        pos |-> fgets_end(data, pos, size)]

\* ------------------------------------------------------------------------
\* The command line (nsort.c:188-272).  An argument is a sequence of
\* one-character strings; argv holds the arguments after the program name.
\* ------------------------------------------------------------------------
tolower(c) ==
  CASE c = "N" -> "n" [] c = "O" -> "o" [] c = "Q" -> "q" [] c = "U" -> "u"
    [] OTHER -> c

\* the switch on one option letter; o is [comp, do_uniq, need_outfile, bad]
opt_switch(o, c) ==
  CASE tolower(c) = "n" -> [o EXCEPT !.comp = "mynCompare"]
    [] tolower(c) = "o" -> [o EXCEPT !.need_outfile = TRUE]
    [] tolower(c) = "q" -> [o EXCEPT !.comp = "mynCompare"]
    [] tolower(c) = "u" -> [o EXCEPT !.do_uniq = TRUE]
    [] tolower(c) = "v" -> o
    [] OTHER -> [o EXCEPT !.bad = TRUE]

\* while ((c = *++argv[0])) switch ...: the letters after the '-'
RECURSIVE opt_letters(_, _)
opt_letters(o, cs) ==
  IF cs = << >> THEN o ELSE opt_letters(opt_switch(o, Head(cs)), Tail(cs))

\* while (--argc > 0 && (*++argv)[0] == '-'): rest is what is left of argv;
\* after a bad option argc is -1 and the loop ends
RECURSIVE opt_args(_, _)
opt_args(o, rest) ==
  IF o.bad \/ rest = << >> \/ Head(Head(rest)) # "-" THEN [o |-> o, rest |-> rest]
  ELSE opt_args(opt_letters(o, Tail(Head(rest))), Tail(rest))

opt_init == [comp |-> "mysCompare", do_uniq |-> FALSE, need_outfile |-> FALSE,
             bad |-> FALSE]

\* the file arguments (nsort.c:206-239): a is [o, rest] after the options,
\* files the names freopen can open for reading.  usage: argc < 0 at line 254
arg_out(a) ==
  IF a.o.need_outfile /\ ~a.o.bad /\ a.rest # << >> THEN Head(a.rest) ELSE <<"stdout">>

arg_after_out(a) ==
  IF a.o.need_outfile /\ ~a.o.bad /\ a.rest # << >> THEN Tail(a.rest) ELSE a.rest

arg_in(a) ==
  IF ~a.o.bad /\ arg_after_out(a) # << >> THEN Head(arg_after_out(a))
  ELSE <<"stdin">>

arg_usage(a, files) ==
  \/ a.o.bad
  \/ a.o.need_outfile /\ a.rest = << >>
  \/ arg_after_out(a) # << >> /\ Head(arg_after_out(a)) \notin files
  \/ Len(arg_after_out(a)) > 1

parse_result(a, files) ==
  [comp |-> a.o.comp, do_uniq |-> a.o.do_uniq, need_outfile |-> a.o.need_outfile,
   outfilename |-> arg_out(a), infilename |-> arg_in(a),
   usage |-> arg_usage(a, files)]

parse_args(av, files) == parse_result(opt_args(opt_init, av), files)

\* ------------------------------------------------------------------------
\* make_subfile (nsort.c:443-543).  subfiles[] is a function on the C
\* indices 0..MAXSUBFILES-1; an element is [f, pos, line, line_size, has]:
\* the contents of its temporary file, how much of it has been read, its
\* line buffer, the size of that buffer, and has = (line != NULL).
\* junk is what a freshly allocated line buffer holds when it is used
\* without having been set (fgets found its file empty).
\* ff says which of the calls make_subfile makes fail if they are made:
\*   t1  tmpfile() at line 448        t2  tmpfile() at line 513
\*   w1  the writes of the sub-merge (ferror at line 492)
\*   w2  the writes of the sorted lines (ferror at line 531)
\*   a1  malloc(buf_size) at line 512  a2  malloc(buf_size) at line 537
\* ------------------------------------------------------------------------
NoFault == [t1 |-> FALSE, w1 |-> FALSE, a1 |-> FALSE, t2 |-> FALSE, w2 |-> FALSE,
            a2 |-> FALSE]

NoFile == [f |-> << >>, pos |-> 0, line |-> << >>, line_size |-> 0, has |-> FALSE]

RECURSIVE Flatten(_)
Flatten(ls) == IF ls = << >> THEN << >> ELSE Head(ls) \o Flatten(Tail(ls))

\* rewind(f); fgets(line, line_size, f)
sf_first(e, r, junk) ==
  [e EXCEPT !.pos = r.pos, !.line = IF r.ok THEN r.str ELSE junk]

sf_rewind(e, junk) == sf_first(e, fgets(e.f, 0, e.line_size), junk)

sf_prepare(subf, n, junk) ==
  [i \in DOMAIN subf |-> IF i < n THEN sf_rewind(subf[i], junk) ELSE subf[i]]

\* a search that always takes the last of the active files
sf_min_last(subf, n, cmp, i, m) == n - 1

\* for (min_idx = 0, i = 1; i < n; ++i) if (comp(line i, line min_idx) < 0) ...
RECURSIVE sf_min(_, _, _, _, _)
sf_min(subf, n, cmp, i, m) ==
  IF i >= n THEN m
  ELSE sf_min(subf, n, cmp, i + 1,
              IF CMP(cmp, subf[i].line, subf[m].line) < 0 THEN i ELSE m)

\* a drop that leaves the entry it copied from as it was, its line buffer
\* not flagged as given away
sf_drop_noflag(subf, m, n, free) == [subf EXCEPT ![m] = subf[n - 1]]

\* subf[m] = subf[--n] once the file of subf[m] is exhausted; in the
\* sub-merge the file is closed and the line buffer freed first
sf_drop(subf, m, n, free) ==
  IF free
  THEN [subf EXCEPT ![m] = IF m = n - 1 THEN [@ EXCEPT !.has = FALSE]
                           ELSE subf[n - 1],
                    ![n - 1] = IF m = n - 1 THEN [@ EXCEPT !.has = FALSE]
                               ELSE [subf[n - 1] EXCEPT !.has = FALSE]]
  ELSE [subf EXCEPT ![m] = subf[n - 1]]

\* the end of a pass of a merge loop: fgets the next line of subf[m], r
sf_next(subf, m, n, r, free) ==
  IF r.ok
  THEN [subf |-> [subf EXCEPT ![m] = [@ EXCEPT !.line = r.str, !.pos = r.pos]],
        n |-> n]
  ELSE [subf |-> sf_drop(subf, m, n, free), n |-> n - 1]

\* one pass of while (initial_nfiles) on the state [subf, n, out]: the
\* line of subf[m] is written to the new file, then the next one is read
sm_put(nx, out) == [subf |-> nx.subf, n |-> nx.n, out |-> out]

sm_at(st, m) ==
  sm_put(sf_next(st.subf, m, st.n,
                 fgets(st.subf[m].f, st.subf[m].pos, st.subf[m].line_size), TRUE),
         st.out \o st.subf[m].line)

\* a pass of the sub-merge that takes the line of subf[0] whatever the
\* other files hold
sm_pass_first(st, cmp) == sm_at(st, 0)

sm_pass(st, cmp) == sm_at(st, sf_min(st.subf, st.n, cmp, 1, 0))

RECURSIVE sm_loop(_, _)
sm_loop(st, cmp) == IF st.n = 0 THEN st ELSE sm_loop(sm_pass(st, cmp), cmp)

\* the tidy-up loop and "now setup just 1 existing merge file"
\* subf[0].line = malloc(buf_size) is not looked at: the entry is set up
\* whether or not it returned NULL (a1)
sm_setup(st, nf, bs, a1) ==
  [i \in DOMAIN st.subf |->
     IF i = 0
     THEN [f |-> st.out, pos |-> Len(st.out), line |-> << >>, line_size |-> bs,
           has |-> ~a1]
     ELSE IF i < nf THEN [st.subf[i] EXCEPT !.has = FALSE] ELSE st.subf[i]]

sub_merge(subf, nf, bs, cmp, junk, a1) ==
  sm_setup(sm_loop([subf |-> sf_prepare(subf, nf, junk), n |-> nf, out |-> << >>],
                   cmp), nf, bs, a1)

\* a make_subfile that gives every new file a line buffer of the size the
\* input buffer has at the start
ms_write_small(subf, nf, sorted, bs) ==
  [subf EXCEPT ![nf] = [f |-> Flatten(sorted), pos |-> Len(Flatten(sorted)),
                        line |-> << >>, line_size |-> INIT_BUF_SIZE, has |-> TRUE]]

\* "Write sorted subfile to temporary file": subf[nf] is the new run
ms_write(subf, nf, sorted, bs) ==
  [subf EXCEPT ![nf] = [f |-> Flatten(sorted), pos |-> Len(Flatten(sorted)),
                        line |-> << >>, line_size |-> bs, has |-> TRUE]]

\* a line buffer that is NULL is handed to fgets by the next loop that
\* prepares to read the temporary files
sf_null(subf, n) == \E i \in 0..(n - 1) : ~subf[i].has

\* what make_subfile returns to main, or how it ends the process:
\* [subf, sub_merge, exit1, crash, err, nfail]; exit1 is exit(1), err the
\* kind of failure that led to it, crash the use of a NULL line buffer,
\* nfail the number of allocations that failed
ms_ret(subf, merged, nfail) ==
  [subf |-> subf, sub_merge |-> merged, exit1 |-> FALSE, crash |-> FALSE,
   err |-> "none", nfail |-> nfail]

ms_exit(subf, err, nfail) ==
  [subf |-> subf, sub_merge |-> FALSE, exit1 |-> TRUE, crash |-> FALSE,
   err |-> err, nfail |-> nfail]

ms_crash(subf) ==
  [subf |-> subf, sub_merge |-> FALSE, exit1 |-> FALSE, crash |-> TRUE,
   err |-> "none", nfail |-> 0]

\* qsort(lines, nl, sizeof lines[0], comp) and what follows it, nfail
\* allocations having failed before
ms_sorted(lines, subf, nf, bs, cmp, ff, merged, nfail) ==
  IF ff.w2 THEN ms_exit(subf, "write", nfail)
  ELSE IF ff.a2 THEN ms_exit(subf, "alloc", nfail + 1)
  ELSE ms_ret(ms_write(subf, nf, qsort(lines, PtrSize, cmp, TRUE), bs),
              merged, nfail)

\* if (nf >= MAXSUBFILES) {...}
ms_merged(lines, subf, nf, bs, cmp, junk, ff) ==
  IF sf_null(subf, nf) THEN ms_crash(subf)
  ELSE IF ff.w1 THEN ms_exit(subf, "write", 0)
  ELSE IF ff.t2 THEN ms_exit(subf, "tmpfile", IF ff.a1 THEN 1 ELSE 0)
  ELSE ms_sorted(lines, sub_merge(subf, nf, bs, cmp, junk, ff.a1), 1, bs, cmp, ff,
                 TRUE, IF ff.a1 THEN 1 ELSE 0)

make_subfile(lines, subf, nf, bs, cmp, junk, ff) ==
  IF ff.t1 THEN ms_exit(subf, "tmpfile", 0)
  ELSE IF nf >= MAXSUBFILES THEN ms_merged(lines, subf, nf, bs, cmp, junk, ff)
  ELSE ms_sorted(lines, subf, nf, bs, cmp, ff, FALSE, 0)

\* ------------------------------------------------------------------------
\* The read loop of main (nsort.c:287-341) on the state
\* R = [s, pos, buf_size, lines, subfiles, nfiles, merge_flag, fails, exit1,
\*      nsub, last_sub, crash, errs, ntmp, ff]
\* fails counts the allocations that failed, nsub the sub-merges, last_sub
\* says whether the latest call of make_subfile did a sub-merge, errs holds
\* the kinds of failure met, ntmp counts the temporary files that exist, ff
\* says which calls of make_subfile fail, crash that a NULL line buffer was
\* used.
\* ------------------------------------------------------------------------
MaxAllocFail == 1   \* allocations that may fail in one run

\* make_subfile did not return: it called exit(1) or used a NULL line
\* buffer, and no run was registered
spill_end(R, ms) ==
  [R EXCEPT !.exit1 = ms.exit1, !.crash = ms.crash, !.fails = R.fails + ms.nfail,
            !.errs = IF ms.exit1 THEN R.errs \cup {ms.err} ELSE R.errs]

\* a spill that leaves nfiles at the count make_subfile was called with,
\* plus one, whether or not the files were merged
spill_set_counted(R, ms) ==
  IF ms.exit1 \/ ms.crash THEN spill_end(R, ms) ELSE
  [R EXCEPT !.merge_flag = TRUE, !.subfiles = ms.subf, !.nfiles = R.nfiles + 1,
            !.lines = << >>,
            !.nsub = IF ms.sub_merge THEN R.nsub + 1 ELSE R.nsub,
            !.last_sub = ms.sub_merge,
            !.fails = R.fails + ms.nfail,
            !.ntmp = IF ms.sub_merge THEN (R.ntmp - R.nfiles) + 2 ELSE R.ntmp + 1]

\* the process is over: exit(1) was called or a NULL pointer was used
stopped(R) == R.exit1 \/ R.crash

\* merge_flag = true; if (make_subfile(lines, nlines, subfiles, nfiles++))
\* nfiles = 2; (the caller then sets nlines = 0)
\* a sub-merge closes the nfiles files it read and leaves two
spill_set(R, ms) ==
  IF ms.exit1 \/ ms.crash THEN spill_end(R, ms) ELSE
  [R EXCEPT !.merge_flag = TRUE, !.subfiles = ms.subf,
            !.nfiles = IF ms.sub_merge THEN 2 ELSE R.nfiles + 1,
            !.lines = << >>,
            !.nsub = IF ms.sub_merge THEN R.nsub + 1 ELSE R.nsub,
            !.last_sub = ms.sub_merge,
            !.fails = R.fails + ms.nfail,
            !.ntmp = IF ms.sub_merge THEN (R.ntmp - R.nfiles) + 2 ELSE R.ntmp + 1]

spill(R, cmp, junk) ==
  spill_set(R, make_subfile(R.lines, R.subfiles, R.nfiles, R.buf_size, cmp, junk,
                            R.ff))

can_fail(R, flag) == flag /\ R.fails < MaxAllocFail

failed(R) == [R EXCEPT !.fails = R.fails + 1]

\* fgets(s + buf_size - BUF_SIZE_INC - 1, BUF_SIZE_INC + 1, stdin): the
\* return value is not looked at
grow_read(R, r) == [R EXCEPT !.s = R.s \o r.str, !.pos = r.pos]

\* new_s = realloc(s, buf_size) after the lines were flushed
grow_retry(R, r2) ==
  IF stopped(R) THEN R
  ELSE IF can_fail(R, r2)
  THEN [failed(R) EXCEPT !.exit1 = TRUE, !.errs = R.errs \cup {"alloc"}]
  ELSE R

\* buf_size += BUF_SIZE_INC; new_s = realloc(s, buf_size); ...
grow_alloc(R, cmp, r1, r2, junk) ==
  IF can_fail(R, r1) THEN grow_retry(spill(failed(R), cmp, junk), r2) ELSE R

grow_more(R, data) ==
  IF stopped(R) THEN R ELSE grow_read(R, fgets(data, R.pos, BUF_SIZE_INC + 1))

grow_step(R, data, cmp, r1, r2, junk) ==
  grow_more(grow_alloc([R EXCEPT !.buf_size = R.buf_size + BUF_SIZE_INC],
                       cmp, r1, r2, junk), data)

\* while (strchr(s, '\n') == NULL) ...; only the first realloc of a line
\* is one that may fail
RECURSIVE grow(_, _, _, _, _, _)
grow(R, data, cmp, r1, r2, junk) ==
  IF stopped(R) \/ has_nl(R.s) THEN R
  ELSE IF Len(R.s) < R.buf_size - 1 THEN [R EXCEPT !.s = R.s \o <<10>>]
  ELSE grow(grow_step(R, data, cmp, r1, r2, junk), data, cmp, FALSE, FALSE, junk)

\* lines[nlines = 0] = malloc(strlen(s)+1); if (lines[0] == NULL) exit(1);
store_retry(R, m2) ==
  IF stopped(R) THEN R
  ELSE IF can_fail(R, m2)
  THEN [failed(R) EXCEPT !.exit1 = TRUE, !.errs = R.errs \cup {"alloc"}]
  ELSE [R EXCEPT !.lines = <<R.s>>]

\* a store that, after it had to spill, does not keep the line just read
store_dropping(R, cmp, m1, m2, junk) ==
  IF stopped(R) THEN R
  ELSE IF Len(R.lines) = MAXLINES THEN spill(R, cmp, junk)
  ELSE IF can_fail(R, m1) THEN spill(failed(R), cmp, junk)
  ELSE [R EXCEPT !.lines = R.lines \o <<R.s>>]

\* a store that sorts the lines held into a temporary file one line before
\* there are MAXLINES of them
store_eager(R, cmp, m1, m2, junk) ==
  IF stopped(R) THEN R
  ELSE IF Len(R.lines) >= MAXLINES - 1 THEN store_retry(spill(R, cmp, junk), m2)
  ELSE IF can_fail(R, m1) THEN store_retry(spill(failed(R), cmp, junk), m2)
  ELSE [R EXCEPT !.lines = R.lines \o <<R.s>>]

\* if (nlines == MAXLINES || (lines[nlines] = malloc(strlen(s)+1)) == NULL)
\* ...; strcpy(lines[nlines], s);
store(R, cmp, m1, m2, junk) ==
  IF stopped(R) THEN R
  ELSE IF Len(R.lines) = MAXLINES THEN store_retry(spill(R, cmp, junk), m2)
  ELSE IF can_fail(R, m1) THEN store_retry(spill(failed(R), cmp, junk), m2)
  ELSE [R EXCEPT !.lines = R.lines \o <<R.s>>]

\* one pass of the for loop, r the result of its fgets(s, buf_size, stdin);
\* fl = [r1, r2, m1, m2] says which allocations fail if they are made, R.ff
\* which calls of make_subfile do
read_line(R, r, data, cmp, fl, junk) ==
  store(grow([R EXCEPT !.s = r.str, !.pos = r.pos], data, cmp, fl.r1, fl.r2, junk),
        cmp, fl.m1, fl.m2, junk)

\* ========================================================================
\* The array sort as a state machine: one call of qsort by the caller
\* (task 0) and the worker threads it starts (task i runs in slot i of
\* Thread_arr; a slot is given a new thread only after the old one has been
\* joined, so a slot has at most one thread that has not exited).
\* ========================================================================
\* bounds of the checked inputs
ExhN == 3       \* every array up to this length over the keys 0..MaxKey
MaxKey == 1
SmallN == 11    \* every length up to this one, for each pattern
MaxN == 72      \* the longest array
SizeStep == 24  \* the lengths between SmallN and MaxN are SizeStep apart
BigN == 96      \* the length of BigArray

Patterns == {"sorted", "steps", "reverse", "organ", "saw", "mix", "skew"}

PatKey(p, n, i) ==
  CASE p = "sorted" -> i
    [] p = "steps" -> i \div 3
    [] p = "reverse" -> n - i
    [] p = "organ" -> MIN(i, n - 1 - i)
    [] p = "saw" -> i % 3
    [] p = "mix" -> (7 * i * i + 3 * i) % 11
    [] OTHER -> IF i % 2 = 0 /\ i < 28 THEN i ELSE 100 + ((7 * i) % 13)

Sizes == (0 .. SmallN) \cup {n \in SmallN .. MaxN : (MaxN - n) % SizeStep = 0}

ExhArrays ==
  UNION {{[i \in 1..n |-> <<k[i], i>>] : k \in [1..n -> 0..MaxKey]} : n \in 0..ExhN}

PatArray(p, n) == [i \in 1..n |-> <<PatKey(p, n, i - 1), i>>]

Inputs ==
  ExhArrays \cup {PatArray(p, n) : p \in Patterns, n \in Sizes}

\* the array on which worker threads start worker threads
BigArray == PatArray("organ", BigN)

\* record sizes: 8 takes the word-sized code paths, 16 the general ones
\* (and is the only one for which heapsort calls malloc)
RecSizes == {8, 16}

Caller == 0
Slots == 1 .. MAX_THREAD
Tasks == {Caller} \cup Slots
NoTask == 0 - 1

VARIABLES
  A,            \* the array being sorted
  A0,           \* the array as passed to qsort
  es,           \* record size
  qcmp,         \* the comparator passed to qsort (the name of the function)
  stack,        \* per task: its active local_qsort calls, innermost last;
                \* a call is [lo, n, itn, max_itn, pf] (lo, n: its segment)
  pc,           \* per task: where it is
  pend,         \* per task: the segment it is handing to new_thread
  th,           \* Thread_arr[i].th != NULL
  task_fin,     \* Thread_arr[i].task_fin
  nos_threads,  \* T_info.nos_threads
  ta_lock,      \* the task holding T_info.ta_lock, or NoTask
  pool,         \* qsort set up a T_info (n >= PAR_MIN_N)
  paths,        \* the code paths loop passes have taken so far
  ji,           \* wait_all_threads: the slot its join loop is at
  events        \* what has happened to threads so far

qvars == <<A, A0, es, qcmp, stack, pc, pend, th, task_fin, nos_threads, ta_lock,
           pool, paths, ji, events>>

\* the comparator of the array sorts
cmpQ == CmpFn(qcmp)

\* the variables of the line sorter (nsort.c: main and its globals)
VARIABLES
  argv,          \* the command line after the program name
  fs,            \* the contents of the files and of the two standard streams
  orig,          \* the contents of the input when nsort was started
  npc,           \* where main is
  comp,          \* the comparator in use (the name of the function)
  do_uniq,
  need_outfile,
  infilename,
  outfilename,
  in_pos,        \* how much of the input has been read
  in_open,       \* stdin is open
  out_open,      \* freopen(outfilename, "w", stdout) has been done
  s,             \* the line buffer
  buf_size,
  lines,         \* lines[0 .. nlines-1]
  subfiles,
  nfiles,
  merge_flag,
  fails,         \* allocations that have failed
  nsub,          \* sub-merges done
  last_sub,      \* the latest make_subfile did a sub-merge
  ntmp,          \* the files made by tmpfile() that exist
  errs           \* the kinds of failure that have been met

nvars == <<argv, fs, orig, npc, comp, do_uniq, need_outfile, infilename,
           outfilename, in_pos, in_open, out_open, s, buf_size, lines, subfiles,
           nfiles, merge_flag, fails, nsub, last_sub, ntmp, errs>>

FileNames == {<<"stdin">>, <<"stdout">>, <<"f">>, <<"g">>}

\* main before its first statement on the command line av, with input
\* data on stdin and in the file f
NStart(av, data) ==
  /\ argv = av
  /\ fs = [n \in FileNames |-> IF n \in {<<"stdin">>, <<"f">>} THEN data ELSE << >>]
  /\ orig = data
  /\ npc = "args"
  /\ comp = "mysCompare"
  /\ do_uniq = FALSE
  /\ need_outfile = FALSE
  /\ infilename = <<"stdin">>
  /\ outfilename = <<"stdout">>
  /\ in_pos = 0
  /\ in_open = TRUE
  /\ out_open = FALSE
  /\ s = << >>
  /\ buf_size = INIT_BUF_SIZE
  /\ lines = << >>
  /\ subfiles = [i \in 0..(MAXSUBFILES - 1) |-> NoFile]
  /\ nfiles = 0
  /\ merge_flag = FALSE
  /\ fails = 0
  /\ nsub = 0
  /\ last_sub = FALSE
  /\ ntmp = 0
  /\ errs = {}

\* the line sorter is not running
NIdle == NStart(<< >>, << >>)

\* ------------------------------------------------------------------------
\* Several calls of qsort at once, each by a thread of its own on an array
\* of its own.  What a sort does to its array is left out here: a thread
\* that sorts a segment asks new_thread for a thread some number of times
\* and then returns.
\* ------------------------------------------------------------------------
Calls == {1, 2}

MaxReq == 2    \* the segments one call offers to new_thread

\* a thread: <<c, 0>> is the thread that called qsort in call c, <<k, i>>
\* the thread started in slot i of the T_info k
Threads == Calls \X Tasks

Workers == Calls \X Slots

NoThread == <<0, 0>>

VARIABLES
  T,       \* per call: the struct T_info T_i of its qsort (qsort.c:1012):
           \* [th, task_fin, nos_threads, ta_lock (the thread holding it)]
  tpc,     \* per thread: where it is
  owner,   \* per worker: the call whose segment it was given
  req,     \* per call: the segments it may still offer to new_thread
  wji      \* per call: the slot the join loop of wait_all_threads is at

cvars == <<T, tpc, owner, req, wji>>

\* a T_info after setup_threads (qsort.c:331-345)
NewPool ==
  [th |-> [i \in Slots |-> FALSE], task_fin |-> [i \in Slots |-> 0],
   nos_threads |-> 0, ta_lock |-> NoThread]

\* no call of this kind is made
CIdle ==
  /\ T = [c \in Calls |-> NewPool]
  /\ tpc = [u \in Threads |-> "none"]
  /\ owner = [w \in Workers |-> 0]
  /\ req = [c \in Calls |-> 0]
  /\ wji = [c \in Calls |-> 1]

vars == <<qvars, nvars, cvars>>

NoSeg == [lo |-> 0, n |-> 0]

Init ==
  /\ A0 \in Inputs \cup {BigArray}
  /\ A = A0
  /\ es \in (IF A0 = BigArray THEN {8} ELSE RecSizes)
  /\ qcmp = "byKey"
  /\ stack = [t \in Tasks |-> << >>]
  /\ pc = [t \in Tasks |-> IF t = Caller THEN "entry" ELSE "none"]
  /\ pend = [t \in Tasks |-> NoSeg]
  /\ th = [i \in Slots |-> FALSE]
  /\ task_fin = [i \in Slots |-> 0]
  /\ nos_threads = 0
  /\ ta_lock = NoTask
  /\ pool = FALSE
  /\ paths = {}
  /\ ji = 1
  /\ events = {}
  /\ NIdle
  /\ CIdle

\* a call that starts with its pivot_fraction above MAX_PIVOT_FRACTION
NewCall_skewed(lo, n) ==
  [lo |-> lo, n |-> n, itn |-> 0, max_itn |-> max_itn_of(n),
   pf |-> [num |-> 1, den |-> 1]]

\* a fresh call local_qsort(a + lo, n, ...): itn = 0, max_itn from n,
\* pivot_fraction = 0.5
NewCall(lo, n) ==
  [lo |-> lo, n |-> n, itn |-> 0, max_itn |-> max_itn_of(n), pf |-> pf_init]

\* calls whose loop has ended (n = 0: at sortend) return
RECURSIVE unwind(_)
unwind(stk) ==
  IF stk # << >> /\ stk[Len(stk)].n = 0 THEN unwind(SubSeq(stk, 1, Len(stk) - 1))
  ELSE stk

\* where a task goes when its outermost local_qsort has returned
Returned(t) ==
  IF t = Caller THEN (IF pool THEN "wait" ELSE "done") ELSE "fin_lock"

AfterStep(t, stk) == IF stk = << >> THEN Returned(t) ELSE "run"

\* a qsort that passes no T_info to local_qsort whatever n is
QsortEntry_nopool ==
  /\ pc[Caller] = "entry"
  /\ UNCHANGED <<nvars, cvars>>
  /\ UNCHANGED <<A0, es, qcmp, pend, task_fin, nos_threads, ta_lock, ji, events>>
  /\ IF Len(A) <= 1 \/ es = 0
     THEN /\ pc' = [pc EXCEPT ![Caller] = "done"]
          /\ UNCHANGED <<A, stack, th, pool, paths>>
     ELSE IF Len(A) < USE_SMALL_SORT
     THEN /\ A' = small_sortq(A, es, cmpQ)
          /\ pc' = [pc EXCEPT ![Caller] = "done"]
          /\ paths' = paths \cup {"entry_small"}
          /\ UNCHANGED <<stack, th, pool>>
     ELSE /\ pool' = FALSE
          /\ th' = [i \in Slots |-> FALSE]
          /\ stack' = [stack EXCEPT ![Caller] = <<NewCall(0, Len(A))>>]
          /\ pc' = [pc EXCEPT ![Caller] = "run"]
          /\ UNCHANGED <<A, paths>>

\* qsort(a, n, es, cmp) up to the call of local_qsort (qsort.c:998-1014)
QsortEntry ==
  /\ pc[Caller] = "entry"
  /\ UNCHANGED <<nvars, cvars>>
  /\ UNCHANGED <<A0, es, qcmp, pend, task_fin, nos_threads, ta_lock, ji, events>>
  /\ IF Len(A) <= 1 \/ es = 0
     THEN /\ pc' = [pc EXCEPT ![Caller] = "done"]
          /\ UNCHANGED <<A, stack, th, pool, paths>>
     ELSE IF Len(A) < USE_SMALL_SORT
     THEN /\ A' = small_sortq(A, es, cmpQ)
          /\ pc' = [pc EXCEPT ![Caller] = "done"]
          /\ paths' = paths \cup {"entry_small"}
          /\ UNCHANGED <<stack, th, pool>>
     ELSE /\ pool' = (Len(A) >= PAR_MIN_N)
          /\ th' = [i \in Slots |-> FALSE]
          /\ stack' = [stack EXCEPT ![Caller] = <<NewCall(0, Len(A))>>]
          /\ pc' = [pc EXCEPT ![Caller] = "run"]
          /\ UNCHANGED <<A, paths>>

\* one pass of the loop of the innermost local_qsort call of task t
Iterate(t) ==
  /\ pc[t] = "run"
  /\ UNCHANGED <<nvars, cvars>>
  /\ stack[t] # << >>
  /\ \E mallocOK \in BOOLEAN :
     \E f \in {stack[t][Len(stack[t])]} :
     \E r \in {qs_iter(SubSeq(A, f.lo + 1, f.lo + f.n), es, cmpQ, f.itn, f.max_itn,
                       f.pf, mallocOK)} :
       LET ch == child_seg(r, f.n)
           co == cont_seg(r, f.n)
           g == [f EXCEPT !.lo = f.lo + co.lo, !.n = co.n, !.itn = r.itn,
                          !.pf = r.pf]
           below == SubSeq(stack[t], 1, Len(stack[t]) - 1)
       IN /\ A' = splice(A, f.lo, r.a)
          /\ paths' = paths \cup {r.path[i] : i \in 1..Len(r.path)}
          /\ IF r.fin
             THEN /\ stack' = [stack EXCEPT ![t] = unwind(below)]
                  /\ pc' = [pc EXCEPT ![t] = AfterStep(t, unwind(below))]
                  /\ UNCHANGED pend
             ELSE IF ch.n > 0 /\ use_new_thread(r.pf, ch.n)
             THEN /\ stack' = [stack EXCEPT ![t] = below \o <<g>>]
                  /\ pend' = [pend EXCEPT ![t] = [lo |-> f.lo + ch.lo, n |-> ch.n]]
                  /\ pc' = [pc EXCEPT ![t] = "nt_lock"]
             ELSE IF ch.n > 0
             THEN /\ stack' = [stack EXCEPT
                                 ![t] = below \o <<g, NewCall(f.lo + ch.lo, ch.n)>>]
                  /\ UNCHANGED <<pc, pend>>
             ELSE /\ stack' = [stack EXCEPT ![t] = unwind(below \o <<g>>)]
                  /\ pc' = [pc EXCEPT ![t] = AfterStep(t, unwind(below \o <<g>>))]
                  /\ UNCHANGED pend
  /\ UNCHANGED <<A0, es, qcmp, th, task_fin, nos_threads, ta_lock, pool, ji, events>>

\* new_thread(x, n, ...): pthread_mutex_lock(&ta_lock) (qsort.c:227)
NtLock(t) ==
  /\ pc[t] = "nt_lock"
  /\ UNCHANGED <<nvars, cvars>>
  /\ ta_lock = NoTask
  /\ ta_lock' = t
  /\ pc' = [pc EXCEPT ![t] = "nt_cs"]
  /\ UNCHANGED <<A, A0, es, qcmp, stack, pend, th, task_fin, nos_threads, pool, paths,
                 ji, events>>

\* the slots the scan of new_thread stops at: a finished thread to clean up
\* and reuse, or an unused slot
NtCand == {i \in Slots : (th[i] /\ task_fin[i] = 1) \/ ~th[i]}

\* a new_thread that leaves nos_threads raised when pthread_create failed
NtBody_leak(t) ==
  /\ pc[t] = "nt_cs"
  /\ UNCHANGED <<nvars, cvars>>
  /\ ta_lock' = NoTask
  /\ UNCHANGED <<A, A0, es, qcmp, pend, pool, paths, ji>>
  /\ IF NtCand = {}
     THEN /\ stack' = [stack EXCEPT ![t] = @ \o <<NewCall(pend[t].lo, pend[t].n)>>]
          /\ pc' = [pc EXCEPT ![t] = "run"]
          /\ events' = events \cup {"no_slot"}
          /\ UNCHANGED <<th, task_fin, nos_threads>>
     ELSE LET i == CHOOSE j \in NtCand : \A k \in NtCand : j <= k
          IN /\ th[i] => pc[i] = "exited"
             /\ \E created \in BOOLEAN :
                  IF created
                  THEN /\ th' = [th EXCEPT ![i] = TRUE]
                       /\ task_fin' = [task_fin EXCEPT ![i] = 0]
                       /\ nos_threads' = nos_threads + 1
                       /\ stack' = [stack EXCEPT
                                      ![i] = <<NewCall(pend[t].lo, pend[t].n)>>,
                                      ![t] = unwind(@)]
                       /\ pc' = [pc EXCEPT ![i] = "start",
                                           ![t] = AfterStep(t, unwind(stack[t]))]
                       /\ events' = events \cup {"spawn"}
                            \cup (IF th[i] THEN {"reuse"} ELSE {})
                            \cup (IF t # Caller THEN {"nested"} ELSE {})
                  ELSE /\ th' = [th EXCEPT ![i] = FALSE]
                       /\ task_fin' = [task_fin EXCEPT ![i] = 0]
                       /\ nos_threads' = nos_threads + 1
                       /\ stack' = [stack EXCEPT
                                      ![t] = @ \o <<NewCall(pend[t].lo, pend[t].n)>>]
                       /\ pc' = [pc EXCEPT ![t] = "run",
                                           ![i] = IF th[i] THEN "none" ELSE @]
                       /\ events' = events \cup {"create_failed"}

\* new_thread from the scan to the end (qsort.c:233-290): take the first
\* usable slot, joining the finished thread it held (pthread_join returns
\* once that thread has exited); start a thread on the segment, or sort the
\* segment in-line when no slot was found or pthread_create failed.
NtBody(t) ==
  /\ pc[t] = "nt_cs"
  /\ UNCHANGED <<nvars, cvars>>
  /\ ta_lock' = NoTask
  /\ UNCHANGED <<A, A0, es, qcmp, pend, pool, paths, ji>>
  /\ IF NtCand = {}
     THEN /\ stack' = [stack EXCEPT ![t] = @ \o <<NewCall(pend[t].lo, pend[t].n)>>]
          /\ pc' = [pc EXCEPT ![t] = "run"]
          /\ events' = events \cup {"no_slot"}
          /\ UNCHANGED <<th, task_fin, nos_threads>>
     ELSE LET i == CHOOSE j \in NtCand : \A k \in NtCand : j <= k
          IN /\ th[i] => pc[i] = "exited"
             /\ \E created \in BOOLEAN :
                  IF created
                  THEN /\ th' = [th EXCEPT ![i] = TRUE]
                       /\ task_fin' = [task_fin EXCEPT ![i] = 0]
                       /\ nos_threads' = nos_threads + 1
                       /\ stack' = [stack EXCEPT
                                      ![i] = <<NewCall(pend[t].lo, pend[t].n)>>,
                                      ![t] = unwind(@)]
                       /\ pc' = [pc EXCEPT ![i] = "start",
                                           ![t] = AfterStep(t, unwind(stack[t]))]
                       /\ events' = events \cup {"spawn"}
                            \cup (IF th[i] THEN {"reuse"} ELSE {})
                            \cup (IF t # Caller THEN {"nested"} ELSE {})
                  ELSE /\ th' = [th EXCEPT ![i] = FALSE]
                       /\ task_fin' = [task_fin EXCEPT ![i] = 0]
                       /\ nos_threads' = nos_threads
                       /\ stack' = [stack EXCEPT
                                      ![t] = @ \o <<NewCall(pend[t].lo, pend[t].n)>>]
                       /\ pc' = [pc EXCEPT ![t] = "run",
                                           ![i] = IF th[i] THEN "none" ELSE @]
                       /\ events' = events \cup {"create_failed"}

\* a thread function that starts by marking its slot finished
ThreadStart_fin(i) ==
  /\ pc[i] = "start"
  /\ UNCHANGED <<nvars, cvars>>
  /\ task_fin' = [task_fin EXCEPT ![i] = 1]
  /\ pc' = [pc EXCEPT ![i] = "run"]
  /\ UNCHANGED <<A, A0, es, qcmp, stack, pend, th, nos_threads, ta_lock, pool, paths,
                 ji, events>>

\* yasortThreadFunc: Arg->task_fin = 0, without the lock (qsort.c:204)
ThreadStart(i) ==
  /\ pc[i] = "start"
  /\ UNCHANGED <<nvars, cvars>>
  /\ task_fin' = [task_fin EXCEPT ![i] = 0]
  /\ pc' = [pc EXCEPT ![i] = "run"]
  /\ UNCHANGED <<A, A0, es, qcmp, stack, pend, th, nos_threads, ta_lock, pool, paths,
                 ji, events>>

\* yasortThreadFunc after local_qsort: pthread_mutex_lock (qsort.c:207)
ThreadFinLock(i) ==
  /\ pc[i] = "fin_lock"
  /\ UNCHANGED <<nvars, cvars>>
  /\ ta_lock = NoTask
  /\ ta_lock' = i
  /\ pc' = [pc EXCEPT ![i] = "fin_cs"]
  /\ UNCHANGED <<A, A0, es, qcmp, stack, pend, th, task_fin, nos_threads, pool, paths,
                 ji, events>>

\* a thread function that marks itself finished and returns with ta_lock
\* still locked
ThreadFin_locked(i) ==
  /\ pc[i] = "fin_cs"
  /\ UNCHANGED <<nvars, cvars>>
  /\ task_fin' = [task_fin EXCEPT ![i] = 1]
  /\ nos_threads' = nos_threads - 1
  /\ pc' = [pc EXCEPT ![i] = "ret"]
  /\ UNCHANGED <<A, A0, es, qcmp, stack, pend, th, ta_lock, pool, paths, ji, events>>

\* task_fin = 1; --nos_threads; pthread_mutex_unlock (qsort.c:211-214)
ThreadFin(i) ==
  /\ pc[i] = "fin_cs"
  /\ UNCHANGED <<nvars, cvars>>
  /\ task_fin' = [task_fin EXCEPT ![i] = 1]
  /\ nos_threads' = nos_threads - 1
  /\ ta_lock' = NoTask
  /\ pc' = [pc EXCEPT ![i] = "ret"]
  /\ UNCHANGED <<A, A0, es, qcmp, stack, pend, th, pool, paths, ji, events>>

\* return 0: the thread ends (qsort.c:219)
ThreadExit(i) ==
  /\ pc[i] = "ret"
  /\ UNCHANGED <<nvars, cvars>>
  /\ pc' = [pc EXCEPT ![i] = "exited"]
  /\ UNCHANGED <<A, A0, es, qcmp, stack, pend, th, task_fin, nos_threads, ta_lock, pool,
                 paths, ji, events>>

\* wait_all_threads, the polling loop: pthread_mutex_lock (qsort.c:301)
WaitLock ==
  /\ pc[Caller] = "wait"
  /\ UNCHANGED <<nvars, cvars>>
  /\ ta_lock = NoTask
  /\ ta_lock' = Caller
  /\ pc' = [pc EXCEPT ![Caller] = "wait_cs"]
  /\ UNCHANGED <<A, A0, es, qcmp, stack, pend, th, task_fin, nos_threads, pool, paths,
                 ji, events>>

\* a wait_all_threads whose polling loop ends after one pass whatever
\* nos_threads is
WaitRead_once ==
  /\ pc[Caller] = "wait_cs"
  /\ UNCHANGED <<nvars, cvars>>
  /\ ta_lock' = NoTask
  /\ pc' = [pc EXCEPT ![Caller] = "join"]
  /\ UNCHANGED <<A, A0, es, qcmp, stack, pend, th, task_fin, nos_threads, pool, paths,
                 ji, events>>

\* nt = nos_threads; pthread_mutex_unlock; while (nt != 0) (qsort.c:298-311)
WaitRead ==
  /\ pc[Caller] = "wait_cs"
  /\ UNCHANGED <<nvars, cvars>>
  /\ ta_lock' = NoTask
  /\ pc' = [pc EXCEPT ![Caller] = IF nos_threads = 0 THEN "join" ELSE "wait"]
  /\ events' = IF nos_threads = 0 THEN events ELSE events \cup {"waited"}
  /\ UNCHANGED <<A, A0, es, qcmp, stack, pend, th, task_fin, nos_threads, pool, paths, ji>>

\* a join loop that passes over the slots without joining their threads
JoinStep_skip ==
  /\ pc[Caller] = "join"
  /\ UNCHANGED <<nvars, cvars>>
  /\ pc' = [pc EXCEPT ![Caller] = IF ji = MAX_THREAD THEN "done" ELSE @]
  /\ ji' = IF ji = MAX_THREAD THEN ji ELSE ji + 1
  /\ UNCHANGED <<A, A0, es, qcmp, stack, pend, th, task_fin, nos_threads, ta_lock, pool,
                 paths, events>>

\* one pass of the join loop of wait_all_threads (qsort.c:315-327): a slot
\* with th != NULL is joined (pthread_join returns once its thread has
\* exited) and cleared; after the last slot close_threads runs and qsort
\* returns (qsort.c:1016-1019)
JoinStep ==
  /\ pc[Caller] = "join"
  /\ UNCHANGED <<nvars, cvars>>
  /\ th[ji] => pc[ji] = "exited"
  /\ th' = [th EXCEPT ![ji] = FALSE]
  /\ task_fin' = [task_fin EXCEPT ![ji] = IF th[ji] THEN 0 ELSE @]
  /\ pc' = [pc EXCEPT ![ji] = IF th[ji] THEN "none" ELSE @,
                      ![Caller] = IF ji = MAX_THREAD THEN "done" ELSE @]
  /\ ji' = IF ji = MAX_THREAD THEN ji ELSE ji + 1
  /\ events' = IF th[ji] THEN events \cup {"joined"} ELSE events
  /\ UNCHANGED <<A, A0, es, qcmp, stack, pend, nos_threads, ta_lock, pool, paths>>

Next ==
  \/ QsortEntry
  \/ \E t \in Tasks : Iterate(t)
  \/ \E t \in Tasks : NtLock(t)
  \/ \E t \in Tasks : NtBody(t)
  \/ \E i \in Slots : ThreadStart(i)
  \/ \E i \in Slots : ThreadFinLock(i)
  \/ \E i \in Slots : ThreadFin(i)
  \/ \E i \in Slots : ThreadExit(i)
  \/ WaitLock
  \/ WaitRead
  \/ JoinStep

Spec == Init /\ [][Next]_vars

\* ------------------------------------------------------------------------
\* qsort called with a comparator that is no total order: the same machine,
\* started on the arrays of InputsX with each comparator of BadCmps
\* ------------------------------------------------------------------------
BadCmps == {"less", "greater", "cyclic", "scramble"}

SizesX == {4, 8, 9, 11, 12, 24, 25, 48}

InputsX == ExhArrays \cup {PatArray(p, n) : p \in Patterns, n \in SizesX}

InitX ==
  /\ A0 \in InputsX
  /\ A = A0
  /\ es \in RecSizes
  /\ qcmp \in BadCmps
  /\ stack = [t \in Tasks |-> << >>]
  /\ pc = [t \in Tasks |-> IF t = Caller THEN "entry" ELSE "none"]
  /\ pend = [t \in Tasks |-> NoSeg]
  /\ th = [i \in Slots |-> FALSE]
  /\ task_fin = [i \in Slots |-> 0]
  /\ nos_threads = 0
  /\ ta_lock = NoTask
  /\ pool = FALSE
  /\ paths = {}
  /\ ji = 1
  /\ events = {}
  /\ NIdle
  /\ CIdle

SpecX == InitX /\ [][Next]_vars

\* a step of a thread other than a poll of nos_threads by the caller
Progress ==
  \/ QsortEntry
  \/ \E t \in Tasks : Iterate(t) \/ NtLock(t) \/ NtBody(t)
  \/ \E i \in Slots : ThreadStart(i) \/ ThreadFinLock(i) \/ ThreadFin(i)
                          \/ ThreadExit(i)
  \/ JoinStep

\* the states in which Progress can take a step: the guards of its actions
\* (for new_thread, the thread the first usable slot held has exited)
ProgressEnabled ==
  \/ pc[Caller] = "entry"
  \/ \E t \in Tasks :
       \/ pc[t] = "run" /\ stack[t] # << >>
       \/ pc[t] = "nt_lock" /\ ta_lock = NoTask
       \/ /\ pc[t] = "nt_cs"
          /\ \A i \in NtCand : (\A k \in NtCand : i <= k) => (th[i] => pc[i] = "exited")
  \/ \E i \in Slots :
       \/ pc[i] \in {"start", "fin_cs", "ret"}
       \/ pc[i] = "fin_lock" /\ ta_lock = NoTask
  \/ pc[Caller] = "join" /\ (th[ji] => pc[ji] = "exited")

\* the threads are scheduled: the caller's polling loop (lock, read,
\* unlock, qsort.c:298-311) goes on while it can, and it does not keep the
\* other threads from running or from getting ta_lock for ever: a thread
\* that can take a step again and again takes one (strong fairness of
\* Progress, its enabling condition written out)
Fairness ==
  /\ WF_vars(WaitLock)
  /\ WF_vars(WaitRead)
  /\ ([]<>ProgressEnabled) => ([]<><<Progress>>_vars)

SpecXFair == SpecX /\ Fairness

\* ------------------------------------------------------------------------
\* heapsort called by itself (heapsort.c:171-211): one call on an array of
\* Inputs with a record size of HeapSizes; the environment decides whether
\* malloc returns NULL when it is called
\* ------------------------------------------------------------------------
HeapSizes == {1, 4, 8, 9, 16}

InitH ==
  /\ A0 \in Inputs
  /\ A = A0
  /\ es \in HeapSizes
  /\ qcmp = "byKey"
  /\ stack = [t \in Tasks |-> << >>]
  /\ pc = [t \in Tasks |-> IF t = Caller THEN "heapsort" ELSE "none"]
  /\ pend = [t \in Tasks |-> NoSeg]
  /\ th = [i \in Slots |-> FALSE]
  /\ task_fin = [i \in Slots |-> 0]
  /\ nos_threads = 0
  /\ ta_lock = NoTask
  /\ pool = FALSE
  /\ paths = {}
  /\ ji = 1
  /\ events = {}
  /\ NIdle
  /\ CIdle

\* the call and its return: the return value is noted in paths, a malloc
\* that returns NULL (if called) in events
HeapsortCall ==
  /\ pc[Caller] = "heapsort"
  /\ \E mallocOK \in BOOLEAN :
     \E r \in {heapsort(A, es, cmpQ, mallocOK)} :
       /\ A' = r.a
       /\ paths' = {IF r.ret = 0 THEN "return_0" ELSE "return_m1"}
       /\ events' = IF mallocOK THEN {} ELSE {"malloc_null"}
  /\ pc' = [pc EXCEPT ![Caller] = "heapsort_done"]
  /\ UNCHANGED <<A0, es, qcmp, stack, pend, th, task_fin, nos_threads, ta_lock, pool, ji>>
  /\ UNCHANGED <<nvars, cvars>>

NextH == HeapsortCall

SpecH == InitH /\ [][NextH]_vars

\* ========================================================================
\* Properties of the array sort
\* ========================================================================
Returned0 == pc[Caller] = "done"

Count(a, r) == Cardinality({i \in 1..Len(a) : a[i] = r})

Range(a) == {a[i] : i \in 1..Len(a)}

\* C1: when qsort has returned, every record of the array compares <= its
\* successor under the comparator, whichever paths the call took (small
\* insertion sort, bounded insertion sort, fast or robust pivot, heapsort
\* fallback with or without memory, worker threads).
C1_Ordered ==
  Returned0 => \A i \in 1..(Len(A) - 1) : CMP(cmpQ, A[i], A[i + 1]) <= 0

\* a call that took the fast and the robust pivot and the heapsort fallback
\* and ran a worker thread has returned, and it had to move records
C1_Witness ==
  /\ Returned0
  /\ A # A0
  /\ {"robust", "med25", "heapsort"} \subseteq paths
  /\ "spawn" \in events

\* C2: in every state, from the call of qsort to its return and between any
\* two loop passes of any thread, the array holds the records it was
\* called with, each as many times as at the call.
C2_Permutation ==
  /\ Len(A) = Len(A0)
  /\ Range(A) = Range(A0)
  /\ Cardinality(Range(A0)) < Len(A0) =>
       \A r \in Range(A0) : Count(A, r) = Count(A0, r)

\* the array has been changed by partition passes (with their vecswaps) and
\* by a heapsort, and a second thread is at work
C2_Witness ==
  /\ A # A0
  /\ "heapsort" \in paths
  /\ "med9" \in paths
  /\ \E i \in Slots : pc[i] = "run"

\* C3: when qsort has returned, every worker thread started during the call
\* has finished its segment and has been joined: no slot holds a thread,
\* no thread is anywhere in its function, and nos_threads is 0.
C3_AllJoined ==
  Returned0 =>
    /\ \A i \in Slots : ~th[i] /\ pc[i] = "none" /\ stack[i] = << >>
    /\ nos_threads = 0
    /\ ta_lock = NoTask

\* qsort has returned after it and a worker started threads, a slot was
\* reused, and it had to poll and to join
C3_Witness ==
  /\ Returned0
  /\ {"spawn", "nested", "reuse", "waited", "joined"} \subseteq events

\* ------------------------------------------------------------------------
\* The inputs of the line sorter
\* ------------------------------------------------------------------------
MaxInLines == 12   \* the longest input, in lines
ExhLines == 3      \* every input up to this many lines over LineAlpha

\* the decimal digits of k (k < 100) and a newline
NumLine(k) ==
  IF k >= 10 THEN <<48 + (k \div 10), 48 + (k % 10), 10>> ELSE <<48 + k, 10>>

\* "a", "2", "10"
LineAlpha == {<<97, 10>>, NumLine(2), NumLine(10)}

\* n decreasing integers
DecLines(n) == [i \in 1..n |-> NumLine(n + 1 - i)]

\* n lines with many duplicates: a, 10, b, a, 10, b, ...
CycLines(n) ==
  [i \in 1..n |-> IF i % 3 = 1 THEN <<97, 10>>
                  ELSE IF i % 3 = 2 THEN NumLine(10) ELSE <<98, 10>>]

\* the scenarios S1, S2 and S3 of the specification and a,a,b,a,b
ScenS1 == <<<<98, 97, 110, 97, 110, 97, 10>>, <<97, 112, 112, 108, 101, 10>>,
            <<99, 104, 101, 114, 114, 121, 10>>>>
ScenS2 == <<<<110, 97, 109, 101, 44, 115, 99, 111, 114, 101, 10>>,
            <<51, 46, 49, 52, 10>>, <<50, 46, 55, 49, 10>>, <<49, 48, 10>>>>
ScenS3 == <<<<34, 49, 48, 34, 44, 120, 10>>, <<34, 50, 34, 44, 121, 10>>,
            <<34, 49, 48, 34, 44, 97, 10>>>>
ScenU == <<<<97, 10>>, <<97, 10>>, <<98, 10>>, <<97, 10>>, <<98, 10>>>>

InLines ==
  UNION {[1..n -> LineAlpha] : n \in 0..ExhLines}
    \cup {DecLines(n) : n \in 0..MaxInLines}
    \cup {CycLines(n) : n \in 0..MaxInLines}
    \cup {ScenS1, ScenS2, ScenS3, ScenU}

\* the input file: the lines, the last one with or without its newline
InData ==
  {Flatten(ls) : ls \in InLines}
    \cup {SubSeq(Flatten(ls), 1, Len(Flatten(ls)) - 1) : ls \in InLines \ {<< >>}}

\* the command lines: nsort, -n, -q, -u, -nu, -q -u, -N, f, -o g, -o g f,
\* -o f f, -uo f f, -n -o f f, -x, -o, f g, -h, -?, x (a file that cannot
\* be opened)
Argvs ==
  {<< >>, <<<<"-", "n">>>>, <<<<"-", "q">>>>, <<<<"-", "u">>>>,
   <<<<"-", "n", "u">>>>, <<<<"-", "q">>, <<"-", "u">>>>, <<<<"-", "N">>>>,
   <<<<"f">>>>, <<<<"-", "o">>, <<"g">>>>, <<<<"-", "o">>, <<"g">>, <<"f">>>>,
   <<<<"-", "o">>, <<"f">>, <<"f">>>>, <<<<"-", "u", "o">>, <<"f">>, <<"f">>>>,
   <<<<"-", "n">>, <<"-", "o">>, <<"f">>, <<"f">>>>, <<<<"-", "x">>>>,
   <<<<"-", "o">>>>, <<<<"f">>, <<"g">>>>, <<<<"-", "h">>>>, <<<<"-", "?">>>>,
   <<<<"x">>>>}

\* what an unset line buffer may hold: the empty string, or "?" and a newline
JunkLines == {<< >>, <<63, 10>>}

\* which of the allocations of a pass of the read loop fail, if made, when
\* k allocations have failed before (r2 is made only after r1 failed)
FailFlags(k) ==
  {fl \in [r1 : BOOLEAN, r2 : BOOLEAN, m1 : BOOLEAN, m2 : BOOLEAN] :
     /\ fl.r2 => fl.r1
     /\ Cardinality({x \in {"r1", "r2", "m1", "m2"} : fl[x]}) <= MaxAllocFail - k}

NoFail == [r1 |-> FALSE, r2 |-> FALSE, m1 |-> FALSE, m2 |-> FALSE]

\* which calls of make_subfile fail in a step whose allocations fail as fl
\* says: none if the step does not call it (spills is false), at most one of
\* tmpfile and the writes, and allocations within what is left of
\* MaxAllocFail; those of the sub-merge only if there is one
SubFaults(fl, spills) ==
  {ff \in [t1 : BOOLEAN, w1 : BOOLEAN, a1 : BOOLEAN, t2 : BOOLEAN, w2 : BOOLEAN,
           a2 : BOOLEAN] :
     /\ ~spills => ff = NoFault
     /\ Cardinality({x \in {"t1", "w1", "t2", "w2"} : ff[x]}) <= 1
     /\ (ff.w1 \/ ff.a1 \/ ff.t2) => nfiles >= MAXSUBFILES
     /\ Cardinality({x \in {"a1", "a2"} : ff[x]})
          + Cardinality({x \in {"r1", "r2", "m1", "m2"} : fl[x]})
          <= MaxAllocFail - fails}

\* the array sort is not running
QIdle ==
  /\ A = << >>
  /\ A0 = << >>
  /\ es = PtrSize
  /\ qcmp = "byKey"
  /\ stack = [t \in Tasks |-> << >>]
  /\ pc = [t \in Tasks |-> "none"]
  /\ pend = [t \in Tasks |-> NoSeg]
  /\ th = [i \in Slots |-> FALSE]
  /\ task_fin = [i \in Slots |-> 0]
  /\ nos_threads = 0
  /\ ta_lock = NoTask
  /\ pool = FALSE
  /\ paths = {}
  /\ ji = 1
  /\ events = {}

\* ------------------------------------------------------------------------
\* The line sorter as a state machine: one run of main
\* ------------------------------------------------------------------------
InitN ==
  /\ QIdle
  /\ CIdle
  /\ \E av \in Argvs, data \in InData : NStart(av, data)

\* the state the operators of the read loop work on
Rnow ==
  [s |-> s, pos |-> in_pos, buf_size |-> buf_size, lines |-> lines,
   subfiles |-> subfiles, nfiles |-> nfiles, merge_flag |-> merge_flag,
   fails |-> fails, exit1 |-> FALSE, nsub |-> nsub, last_sub |-> last_sub,
   crash |-> FALSE, errs |-> errs, ntmp |-> ntmp, ff |-> NoFault]

\* where main is after a step of the read loop or a call of make_subfile
after(R, pc_next) ==
  IF R.crash THEN "crash" ELSE IF R.exit1 THEN "exit1" ELSE pc_next

RAssign(R) ==
  /\ s' = R.s
  /\ in_pos' = R.pos
  /\ buf_size' = R.buf_size
  /\ lines' = R.lines
  /\ subfiles' = R.subfiles
  /\ nfiles' = R.nfiles
  /\ merge_flag' = R.merge_flag
  /\ fails' = R.fails
  /\ nsub' = R.nsub
  /\ last_sub' = R.last_sub
  /\ errs' = R.errs
  /\ ntmp' = IF R.exit1 THEN 0 ELSE R.ntmp   \* exit removes the temporary files

\* what the unset line buffers read in the next step may hold: a buffer is
\* read unset only if its file is empty, and a file is empty only if it
\* was written from no lines
JunkChoices ==
  IF lines = << >> \/ \E i \in 0..(nfiles - 1) : subfiles[i].f = << >>
  THEN JunkLines ELSE {<< >>}

\* where the output goes: stdout, reopened on outfilename by -o
outname == IF out_open THEN outfilename ELSE <<"stdout">>

\* a main that reopens stdout on the output file as soon as it has the
\* file names, before it reads the input
ParseArgs_open_first ==
  /\ npc = "args"
  /\ \E a \in {parse_args(argv, {<<"f">>, <<"g">>})} :
       /\ comp' = a.comp
       /\ do_uniq' = a.do_uniq
       /\ need_outfile' = a.need_outfile
       /\ infilename' = a.infilename
       /\ outfilename' = a.outfilename
       /\ npc' = IF a.usage THEN "exit1" ELSE "read"
       /\ errs' = IF a.usage THEN errs \cup {"usage"} ELSE errs
       /\ out_open' = (a.need_outfile /\ ~a.usage)
       /\ fs' = IF a.need_outfile /\ ~a.usage
                THEN [fs EXCEPT ![a.outfilename] = << >>] ELSE fs
  /\ UNCHANGED <<argv, orig, in_pos, in_open, s, buf_size, lines,
                 subfiles, nfiles, merge_flag, fails, nsub, last_sub, ntmp>>
  /\ UNCHANGED <<qvars, cvars>>

\* the command line (nsort.c:188-272): the options and file names are
\* taken, stdin is reopened on the input file; exit(1) after the usage text
ParseArgs ==
  /\ npc = "args"
  /\ \E a \in {parse_args(argv, {<<"f">>, <<"g">>})} :
       /\ comp' = a.comp
       /\ do_uniq' = a.do_uniq
       /\ need_outfile' = a.need_outfile
       /\ infilename' = a.infilename
       /\ outfilename' = a.outfilename
       /\ npc' = IF a.usage THEN "exit1" ELSE "read"
       /\ errs' = IF a.usage THEN errs \cup {"usage"} ELSE errs
  /\ UNCHANGED <<argv, fs, orig, in_pos, in_open, out_open, s, buf_size, lines,
                 subfiles, nfiles, merge_flag, fails, nsub, last_sub, ntmp>>
  /\ UNCHANGED <<qvars, cvars>>

\* one pass of the read loop (nsort.c:287-341): a line is read, the buffer
\* growing as needed, and stored; the lines held are first sorted into a
\* temporary file if there are MAXLINES of them or memory has run out
ReadLine ==
  /\ npc = "read"
  /\ fgets(fs[infilename], in_pos, buf_size).ok
  /\ \E fl \in FailFlags(fails), junk \in JunkChoices :
     \E ff \in SubFaults(fl, Len(lines) = MAXLINES \/ fl.r1 \/ fl.m1) :
     \E R \in {read_line([Rnow EXCEPT !.ff = ff],
                         fgets(fs[infilename], in_pos, buf_size),
                         fs[infilename], CmpFn(comp), fl, junk)} :
       /\ RAssign(R)
       /\ npc' = after(R, "read")
  /\ UNCHANGED <<argv, fs, orig, comp, do_uniq, need_outfile, infilename,
                 outfilename, in_open, out_open>>
  /\ UNCHANGED <<qvars, cvars>>

\* the end of the input (nsort.c:342-350): fgets returned NULL; with -o
\* stdin is closed and stdout reopened on the output file, which empties it
EndOfInput ==
  /\ npc = "read"
  /\ ~fgets(fs[infilename], in_pos, buf_size).ok
  /\ IF need_outfile
     THEN /\ in_open' = FALSE
          /\ \E opened \in BOOLEAN :
               IF opened
               THEN /\ fs' = [fs EXCEPT ![outfilename] = << >>]
                    /\ out_open' = TRUE
                    /\ npc' = "sort"
                    /\ UNCHANGED <<ntmp, errs>>
               ELSE /\ npc' = "exit1"
                    /\ errs' = errs \cup {"open"}
                    /\ ntmp' = 0
                    /\ UNCHANGED <<fs, out_open>>
     ELSE /\ npc' = "sort"
          /\ UNCHANGED <<fs, in_open, out_open, ntmp, errs>>
  /\ UNCHANGED <<argv, orig, comp, do_uniq, need_outfile, infilename, outfilename,
                 in_pos, s, buf_size, lines, subfiles, nfiles, merge_flag, fails,
                 nsub, last_sub>>
  /\ UNCHANGED <<qvars, cvars>>

\* a print loop that prints every line, with or without -u
fast_print_all(ls, i, uniq) == Flatten(ls)

\* for (i = 0; i < nlines; ++i) if (!do_uniq || i == 0 ||
\* strcmp(lines[i-1], lines[i])) fputs(lines[i], stdout);
RECURSIVE fast_print(_, _, _)
fast_print(ls, i, uniq) ==
  IF i >= Len(ls) THEN << >>
  ELSE (IF ~uniq \/ i = 0 \/ strcmp(At(ls, i - 1), At(ls, i)) # 0
        THEN At(ls, i) ELSE << >>) \o fast_print(ls, i + 1, uniq)

\* a fast path that does not look at ferror(stdout) and always ends with
\* exit(0)
FastSort_unchecked ==
  /\ npc = "sort"
  /\ ~merge_flag
  /\ fs' = [fs EXCEPT ![outname] =
              @ \o fast_print(qsort(lines, PtrSize, CmpFn(comp), TRUE), 0, do_uniq)]
  /\ \E werr \in BOOLEAN :
       /\ npc' = "done"
       /\ errs' = IF werr THEN errs \cup {"write"} ELSE errs
  /\ UNCHANGED <<argv, orig, comp, do_uniq, need_outfile, infilename, outfilename,
                 in_pos, in_open, out_open, s, buf_size, lines, subfiles, nfiles,
                 merge_flag, fails, nsub, last_sub, ntmp>>
  /\ UNCHANGED <<qvars, cvars>>

\* no temporary file was made (nsort.c:401-414, 439): the lines are sorted
\* and printed, exit(0), or exit(1) if ferror(stdout) (werr)
FastSort ==
  /\ npc = "sort"
  /\ ~merge_flag
  /\ fs' = [fs EXCEPT ![outname] =
              @ \o fast_print(qsort(lines, PtrSize, CmpFn(comp), TRUE), 0, do_uniq)]
  /\ \E werr \in BOOLEAN :
       /\ npc' = IF werr THEN "exit1" ELSE "done"
       /\ errs' = IF werr THEN errs \cup {"write"} ELSE errs
  /\ UNCHANGED <<argv, orig, comp, do_uniq, need_outfile, infilename, outfilename,
                 in_pos, in_open, out_open, s, buf_size, lines, subfiles, nfiles,
                 merge_flag, fails, nsub, last_sub, ntmp>>
  /\ UNCHANGED <<qvars, cvars>>

\* the start of the merge (nsort.c:355-369): the lines left are sorted
\* into a last temporary file, the first line of each file is read, s[0] = 0
FinalSpill ==
  /\ npc = "sort"
  /\ merge_flag
  /\ \E junk \in JunkChoices, ff \in SubFaults(NoFail, TRUE) :
     \E R \in {spill([Rnow EXCEPT !.ff = ff], CmpFn(comp), junk)} :
       IF stopped(R) \/ sf_null(R.subfiles, R.nfiles)
       THEN /\ RAssign(R)
            /\ npc' = IF R.exit1 THEN "exit1" ELSE "crash"
       ELSE /\ RAssign([R EXCEPT !.subfiles = sf_prepare(R.subfiles, R.nfiles, junk),
                                 !.s = << >>])
            /\ npc' = "merge"
  /\ UNCHANGED <<argv, fs, orig, comp, do_uniq, need_outfile, infilename,
                 outfilename, in_open, out_open>>
  /\ UNCHANGED <<qvars, cvars>>

\* one pass of while (nfiles) (nsort.c:370-399, 439), and after the last
\* one exit(0), or exit(1) if ferror(stdout) (werr); exit removes the
\* temporary files, none of which main has closed: the least of the files' lines is printed unless -u finds it
\* equal to the line printed before, and the next line of its file is read
MergeStep ==
  /\ npc = "merge"
  /\ nfiles > 0
  /\ \E m \in {sf_min(subfiles, nfiles, CmpFn(comp), 1, 0)} :
     \E nx \in {sf_next(subfiles, m, nfiles,
                        fgets(subfiles[m].f, subfiles[m].pos,
                              subfiles[m].line_size), FALSE)} :
       /\ IF do_uniq /\ strcmp(s, subfiles[m].line) = 0
          THEN UNCHANGED <<fs, s>>
          ELSE /\ fs' = [fs EXCEPT ![outname] = @ \o subfiles[m].line]
               /\ s' = IF do_uniq THEN subfiles[m].line ELSE s
       /\ subfiles' = nx.subf
       /\ nfiles' = nx.n
       /\ \E werr \in {b \in BOOLEAN : b => nx.n = 0} :
            /\ npc' = IF nx.n > 0 THEN "merge" ELSE IF werr THEN "exit1" ELSE "done"
            /\ errs' = IF werr THEN errs \cup {"write"} ELSE errs
            /\ ntmp' = IF nx.n > 0 THEN ntmp ELSE 0
  /\ UNCHANGED <<argv, orig, comp, do_uniq, need_outfile, infilename, outfilename,
                 in_pos, in_open, out_open, buf_size, lines, merge_flag, fails,
                 nsub, last_sub>>
  /\ UNCHANGED <<qvars, cvars>>

\* a handler that ends the process as the default action of the signal
\* does, without calling exit
CtrlHandler_default(st) == [st EXCEPT !.npc = "sigexit"]

\* CtrlHandler (nsort.c:597-607): exit(1), which closes every open stream;
\* a file made by tmpfile() is removed when it is closed
CtrlHandler(st) == [npc |-> "sigexit", ntmp |-> 0]

\* SIGINT, SIGBREAK or SIGTERM arrives: main installed CtrlHandler for
\* them before it looked at the command line (nsort.c:168-174)
Interrupt ==
  /\ npc \in {"args", "read", "sort", "merge"}
  /\ \E st \in {CtrlHandler([npc |-> npc, ntmp |-> ntmp])} :
       /\ npc' = st.npc
       /\ ntmp' = st.ntmp
  /\ UNCHANGED <<argv, fs, orig, comp, do_uniq, need_outfile, infilename,
                 outfilename, in_pos, in_open, out_open, s, buf_size, lines,
                 subfiles, nfiles, merge_flag, fails, nsub, last_sub, errs>>
  /\ UNCHANGED <<qvars, cvars>>

NextN ==
  \/ ParseArgs
  \/ ReadLine
  \/ EndOfInput
  \/ FastSort
  \/ FinalSpill
  \/ MergeStep
  \/ Interrupt

SpecN == InitN /\ [][NextN]_vars

\* ------------------------------------------------------------------------
\* Two calls of qsort at once (qsort.c:998-1020), each on n >= PAR_MIN_N
\* records, so each sets up a T_info
\* ------------------------------------------------------------------------
\* a pool that is one object shared by all calls
T_shared(c) == 1

\* struct T_info T_i; setup_threads(&T_i); local_qsort(a, n, es, cmp, &T_i):
\* the T_info of call c is a local variable of its qsort
T_i(c) == c

\* the pT_i a thread works with: the caller's is &T_i, a worker's is the
\* Arg->pT_i_p new_thread stored in its slot, the T_info the slot is in
pT(u) == IF u[2] = 0 THEN T_i(u[1]) ELSE u[1]

\* the call a thread sorts for
CallOf(u) == IF u[2] = 0 THEN u[1] ELSE owner[u]

InitC ==
  /\ QIdle
  /\ NIdle
  /\ T = [c \in Calls |-> NewPool]
  /\ tpc = [u \in Threads |-> IF u[2] = 0 THEN "entry" ELSE "none"]
  /\ owner = [w \in Workers |-> 0]
  /\ req = [c \in Calls |-> MaxReq]
  /\ wji = [c \in Calls |-> 1]

\* qsort up to the call of local_qsort: setup_threads(&T_i)
CQsortEntry(c) ==
  /\ tpc[<<c, 0>>] = "entry"
  /\ T' = [T EXCEPT ![T_i(c)] = NewPool]
  /\ tpc' = [tpc EXCEPT ![<<c, 0>>] = "run"]
  /\ UNCHANGED <<owner, req, wji>>
  /\ UNCHANGED <<qvars, nvars>>

\* local_qsort comes to new_thread(pl, d1/es, ...) (qsort.c:923-947)
CRequest(u) ==
  /\ tpc[u] = "run"
  /\ req[CallOf(u)] > 0
  /\ req' = [req EXCEPT ![CallOf(u)] = @ - 1]
  /\ tpc' = [tpc EXCEPT ![u] = "nt_lock"]
  /\ UNCHANGED <<T, owner, wji>>
  /\ UNCHANGED <<qvars, nvars>>

\* the outermost local_qsort of the thread returns
CReturn(u) ==
  /\ tpc[u] = "run"
  /\ tpc' = [tpc EXCEPT ![u] = IF u[2] = 0 THEN "wait" ELSE "fin_lock"]
  /\ UNCHANGED <<T, owner, req, wji>>
  /\ UNCHANGED <<qvars, nvars>>

\* new_thread: pthread_mutex_lock(&(pT_i->ta_lock)) (qsort.c:227)
CNtLock(u) ==
  /\ tpc[u] = "nt_lock"
  /\ T[pT(u)].ta_lock = NoThread
  /\ T' = [T EXCEPT ![pT(u)].ta_lock = u]
  /\ tpc' = [tpc EXCEPT ![u] = "nt_cs"]
  /\ UNCHANGED <<owner, req, wji>>
  /\ UNCHANGED <<qvars, nvars>>

\* the slots of the T_info p the scan of new_thread stops at
CNtCand(p) == {i \in Slots : (T[p].th[i] /\ T[p].task_fin[i] = 1) \/ ~T[p].th[i]}

\* new_thread from the scan to the end (qsort.c:233-290), on pT_i
CNtBody(u) ==
  /\ tpc[u] = "nt_cs"
  /\ UNCHANGED <<req, wji>>
  /\ UNCHANGED <<qvars, nvars>>
  /\ \E p \in {pT(u)} :
       IF CNtCand(p) = {}
       THEN /\ T' = [T EXCEPT ![p].ta_lock = NoThread]
            /\ tpc' = [tpc EXCEPT ![u] = "run"]
            /\ UNCHANGED owner
       ELSE \E i \in {j \in CNtCand(p) : \A k \in CNtCand(p) : j <= k} :
              /\ T[p].th[i] => tpc[<<p, i>>] = "exited"
              /\ \E created \in BOOLEAN :
                   IF created
                   THEN /\ T' = [T EXCEPT ![p].th[i] = TRUE,
                                          ![p].task_fin[i] = 0,
                                          ![p].nos_threads = @ + 1,
                                          ![p].ta_lock = NoThread]
                        /\ owner' = [owner EXCEPT ![<<p, i>>] = CallOf(u)]
                        /\ tpc' = [tpc EXCEPT ![<<p, i>>] = "start", ![u] = "run"]
                   ELSE /\ T' = [T EXCEPT ![p].th[i] = FALSE,
                                          ![p].task_fin[i] = 0,
                                          ![p].ta_lock = NoThread]
                        /\ tpc' = [tpc EXCEPT
                                     ![<<p, i>>] = IF T[p].th[i] THEN "none" ELSE @,
                                     ![u] = "run"]
                        /\ UNCHANGED owner

\* yasortThreadFunc: Arg->task_fin = 0 (qsort.c:204)
CThreadStart(w) ==
  /\ tpc[w] = "start"
  /\ T' = [T EXCEPT ![w[1]].task_fin[w[2]] = 0]
  /\ tpc' = [tpc EXCEPT ![w] = "run"]
  /\ UNCHANGED <<owner, req, wji>>
  /\ UNCHANGED <<qvars, nvars>>

\* pthread_mutex_lock(&(Arg->pT_i_p->ta_lock)) (qsort.c:207)
CThreadFinLock(w) ==
  /\ tpc[w] = "fin_lock"
  /\ T[w[1]].ta_lock = NoThread
  /\ T' = [T EXCEPT ![w[1]].ta_lock = w]
  /\ tpc' = [tpc EXCEPT ![w] = "fin_cs"]
  /\ UNCHANGED <<owner, req, wji>>
  /\ UNCHANGED <<qvars, nvars>>

\* task_fin = 1; --nos_threads; unlock (qsort.c:211-214)
CThreadFin(w) ==
  /\ tpc[w] = "fin_cs"
  /\ T' = [T EXCEPT ![w[1]].task_fin[w[2]] = 1,
                    ![w[1]].nos_threads = @ - 1,
                    ![w[1]].ta_lock = NoThread]
  /\ tpc' = [tpc EXCEPT ![w] = "ret"]
  /\ UNCHANGED <<owner, req, wji>>
  /\ UNCHANGED <<qvars, nvars>>

\* return 0 (qsort.c:219)
CThreadExit(w) ==
  /\ tpc[w] = "ret"
  /\ tpc' = [tpc EXCEPT ![w] = "exited"]
  /\ UNCHANGED <<T, owner, req, wji>>
  /\ UNCHANGED <<qvars, nvars>>

\* wait_all_threads(&T_i): lock (qsort.c:301)
CWaitLock(c) ==
  /\ tpc[<<c, 0>>] = "wait"
  /\ T[T_i(c)].ta_lock = NoThread
  /\ T' = [T EXCEPT ![T_i(c)].ta_lock = <<c, 0>>]
  /\ tpc' = [tpc EXCEPT ![<<c, 0>>] = "wait_cs"]
  /\ UNCHANGED <<owner, req, wji>>
  /\ UNCHANGED <<qvars, nvars>>

\* nt = pT_i->nos_threads; unlock; while (nt != 0) (qsort.c:298-311)
CWaitRead(c) ==
  /\ tpc[<<c, 0>>] = "wait_cs"
  /\ T' = [T EXCEPT ![T_i(c)].ta_lock = NoThread]
  /\ tpc' = [tpc EXCEPT
               ![<<c, 0>>] = IF T[T_i(c)].nos_threads = 0 THEN "join" ELSE "wait"]
  /\ UNCHANGED <<owner, req, wji>>
  /\ UNCHANGED <<qvars, nvars>>

\* one pass of the join loop (qsort.c:315-327); after the last slot
\* close_threads(&T_i) and qsort returns
CJoinStep(c) ==
  /\ tpc[<<c, 0>>] = "join"
  /\ UNCHANGED <<owner, req>>
  /\ UNCHANGED <<qvars, nvars>>
  /\ \E p \in {T_i(c)}, i \in {wji[c]} :
       /\ T[p].th[i] => tpc[<<p, i>>] = "exited"
       /\ T' = [T EXCEPT ![p].th[i] = FALSE,
                         ![p].task_fin[i] = IF T[p].th[i] THEN 0 ELSE @]
       /\ tpc' = [tpc EXCEPT
                    ![<<p, i>>] = IF T[p].th[i] THEN "none" ELSE @,
                    ![<<c, 0>>] = IF i = MAX_THREAD THEN "done" ELSE @]
       /\ wji' = [wji EXCEPT ![c] = IF i = MAX_THREAD THEN i ELSE i + 1]

NextC ==
  \/ \E c \in Calls : CQsortEntry(c)
  \/ \E u \in Threads : CRequest(u)
  \/ \E u \in Threads : CReturn(u)
  \/ \E u \in Threads : CNtLock(u)
  \/ \E u \in Threads : CNtBody(u)
  \/ \E w \in Workers : CThreadStart(w)
  \/ \E w \in Workers : CThreadFinLock(w)
  \/ \E w \in Workers : CThreadFin(w)
  \/ \E w \in Workers : CThreadExit(w)
  \/ \E c \in Calls : CWaitLock(c)
  \/ \E c \in Calls : CWaitRead(c)
  \/ \E c \in Calls : CJoinStep(c)

SpecC == InitC /\ [][NextC]_vars

\* ========================================================================
\* Properties of the line sorter
\* ========================================================================
\* the lines of a stream: each ends with its newline, except a last line
\* that has none
NlPos(data) == {k \in 1..Len(data) : data[k] = 10}

LineEnd(data, i) ==
  IF i <= Cardinality(NlPos(data))
  THEN CHOOSE p \in NlPos(data) : Cardinality({q \in NlPos(data) : q <= p}) = i
  ELSE Len(data)

SplitLines(data) ==
  [i \in 1..(Cardinality(NlPos(data))
              + (IF data # << >> /\ data[Len(data)] # 10 THEN 1 ELSE 0)) |->
     SubSeq(data, IF i = 1 THEN 1 ELSE LineEnd(data, i - 1) + 1, LineEnd(data, i))]

\* the lines of the input as nsort takes them: a last line without a
\* newline is given one
InLinesOf(data) ==
  SplitLines(IF data # << >> /\ data[Len(data)] # 10 THEN data \o <<10>> ELSE data)

\* what nsort has written
OutData == fs[IF need_outfile THEN outfilename ELSE <<"stdout">>]

OutLines == SplitLines(OutData)

Ordered(ls, cmp) == \A i \in 1..(Len(ls) - 1) : CMP(cmp, ls[i], ls[i + 1]) <= 0

SameBag(l1, l2) ==
  /\ Len(l1) = Len(l2)
  /\ \A x \in Range(l1) \cup Range(l2) : Count(l1, x) = Count(l2, x)

\* an option letter is on the command line
HasOpt(c) ==
  \E i \in 1..Len(argv) :
    /\ Head(argv[i]) = "-"
    /\ \E k \in 2..Len(argv[i]) : tolower(argv[i][k]) = c

FinishedOK == npc = "done" /\ fails = 0

\* the in-memory sort of the input, printed as the fast path prints
SortedInput ==
  fast_print(qsort(InLinesOf(orig), PtrSize, CmpFn(comp), TRUE), 0, do_uniq)

\* C4: when nsort without -u has finished and no allocation failed, its
\* output is the input lines in non-decreasing order under the comparator
\* in use: the same lines, each as often as in the input, whatever the
\* number of lines (none, one, around MAXLINES, multiples of
\* MAXLINES*MAXSUBFILES) and so wherever the lines were spilled.
C4_SortedOutput ==
  (FinishedOK /\ ~do_uniq) =>
    /\ Ordered(OutLines, CmpFn(comp))
    /\ SameBag(OutLines, InLinesOf(orig))

\* twelve lines (2 * MAXLINES * MAXSUBFILES) have been sorted as numbers
\* through six temporary files and two sub-merges
C4_Witness ==
  /\ FinishedOK
  /\ ~do_uniq
  /\ comp = "mynCompare"
  /\ Len(InLinesOf(orig)) = 2 * MAXLINES * MAXSUBFILES
  /\ nsub = 2
  /\ OutData # orig

\* the lines held by the temporary files subf[0 .. n-1]
RunLines(subf, n) ==
  Flatten([i \in 1..n |-> SplitLines(subf[i - 1].f)])

\* C5: a step that does a sub-merge (no allocation having failed) leaves in
\* subfiles[0] a file that holds exactly the lines of the MAXSUBFILES files
\* it replaced, in order under the comparator; and a run of nsort that did
\* sub-merges ends with the output the in-memory sort of the same input
\* would give (the input, the comparator and -u are those of the state the
\* last step starts from: they do not change once main reads its input).
C5_SubMerge ==
  [][/\ (nsub' > nsub /\ fails' = 0) =>
          /\ Ordered(SplitLines(subfiles'[0].f), CmpFn(comp))
          /\ SameBag(SplitLines(subfiles'[0].f), RunLines(subfiles, nfiles))
     /\ (npc' = "done" /\ fails' = 0 /\ nsub' > 0) => OutData' = SortedInput]_vars

\* ten decreasing integers have been sorted as strings, with a sub-merge
C5_Witness ==
  /\ FinishedOK
  /\ nsub > 0
  /\ orig = Flatten(DecLines(10))
  /\ comp = "mysCompare"
  /\ ~do_uniq

\* C6: nfiles never exceeds MAXSUBFILES, and once a call of make_subfile
\* has merged the MAXSUBFILES files into one, nfiles is 2 (the merged file
\* and the new one) until the next call or the final merge, which only
\* lowers it.
C6_RunCount ==
  /\ nfiles <= MAXSUBFILES
  /\ (last_sub /\ npc \in {"read", "sort"}) => nfiles = 2
  /\ last_sub => nfiles <= 2

\* the read loop has just done its second sub-merge
C6_Witness ==
  /\ npc = "read"
  /\ last_sub
  /\ nsub = 2
  /\ nfiles = 2
  /\ Len(lines) = 1

\* C7: when nsort -u has finished and no allocation failed, no two adjacent
\* output lines are equal and every distinct input line is in the output
\* exactly once, on the fast path and on the merge path.
C7_Unique ==
  (FinishedOK /\ do_uniq) =>
    /\ \A i \in 1..(Len(OutLines) - 1) : OutLines[i] # OutLines[i + 1]
    /\ Range(OutLines) = Range(InLinesOf(orig))
    /\ Len(OutLines) = Cardinality(Range(InLinesOf(orig)))

\* a,a,b,a,b has gone through the merge path with -u and came out as a,b
C7_Witness ==
  /\ FinishedOK
  /\ do_uniq
  /\ merge_flag
  /\ orig = Flatten(ScenU)
  /\ OutData = <<97, 10, 98, 10>>

\* C8 (as the specification states it): with -q the comparator in use is
\* the quoted-numeric one, the output is in its order, and the lines
\* "10",x  "2",y  "10",a  come out as  "2",y  "10",a  "10",x.
C8_QuotedNumeric ==
  (FinishedOK /\ HasOpt("q")) =>
    /\ comp = "mynqCompare"
    /\ Ordered(OutLines, CmpFn("mynqCompare"))
    /\ (orig = Flatten(ScenS3) /\ ~do_uniq) =>
         OutData = Flatten(<<ScenS3[2], ScenS3[3], ScenS3[1]>>)

\* the number a line starts with, if any
HasNum(l) == strtod(l).ok

C10_OutputAfterInput ==
  /\ out_open => (in_pos = Len(orig) /\ ~in_open)
  /\ (FinishedOK /\ need_outfile /\ infilename = outfilename) =>
       fs[outfilename] = SortedInput

\* nsort -o f f has finished on a file of several lines that were not in
\* order
C10_Witness ==
  /\ FinishedOK
  /\ need_outfile
  /\ infilename = outfilename
  /\ merge_flag
  /\ fs[outfilename] # orig
  /\ Len(orig) > 0

\* the ways main ends that the process itself brings about: exit(0),
\* exit(1), and exit(1) from the signal handler
Exited == npc \in {"done", "exit1", "sigexit"}

C12_SpillRetry ==
  /\ (npc = "done" /\ fails > 0) => (merge_flag /\ OutData = SortedInput)
  /\ (npc = "exit1" /\ "alloc" \in errs) => fails > 0

\* the command lines of Argvs that nsort rejects: an invalid option, -o
\* without a file name, a second input file, a request for help, an input
\* file that cannot be opened
BadArgvs ==
  {<<<<"-", "x">>>>, <<<<"-", "o">>>>, <<<<"f">>, <<"g">>>>, <<<<"-", "h">>>>,
   <<<<"-", "?">>>>, <<<<"x">>>>}

\* the files and main's variables are as they were when main started
NothingDone ==
  /\ fs = [n \in FileNames |-> IF n \in {<<"stdin">>, <<"f">>} THEN orig ELSE << >>]
  /\ in_pos = 0
  /\ lines = << >>
  /\ ~merge_flag
  /\ ~out_open

C14_NoNullLine ==
  /\ \A i \in 0..(nfiles - 1) : subfiles[i].has
  /\ npc # "crash"
  /\ (fails > 0 /\ npc \notin {"read", "sort", "merge", "sigexit"})
       => (npc = "done" \/ (npc = "exit1" /\ errs # {}))

\* the array a is non-decreasing under the comparator of the array sorts
SortedQ(a) == \A i \in 1..(Len(a) - 1) : CMP(cmpQ, a[i], a[i + 1]) <= 0

\* two neighbours of a compare equal (they differ in their second field)
HasEqual(a) == \E i \in 1..(Len(a) - 1) : CMP(cmpQ, a[i], a[i + 1]) = 0

\* C15: if the array passed to qsort is non-decreasing under the comparator,
\* the array at the return is the same sequence of records, for every
\* length and record size; records that compare equal keep their places.
C15_SortedUnchanged == (Returned0 /\ SortedQ(A0)) => A = A0

\* a sorted array of general-size records with equal neighbours, too long
\* for the small sort, has been sorted
C15_Witness ==
  /\ Returned0
  /\ SortedQ(A0)
  /\ HasEqual(A0)
  /\ Len(A0) > USE_SMALL_SORT
  /\ es = 16
  /\ A = A0

\* C16: the array qsort returns is the one the same call gives when every
\* segment is sorted in line by the calling thread, whichever slots were
\* free, whichever threads were started, refused or not created, and
\* however the threads' steps were interleaved (runs in which heapsort's
\* malloc failed are compared in C20).
C16_ScheduleFree ==
  (Returned0 /\ "heapfail" \notin paths) => A = qsort(A0, es, cmpQ, TRUE)

\* a call has returned that started threads, found no slot free at least
\* once, used heapsort, and had records with equal keys to arrange
C16_Witness ==
  /\ Returned0
  /\ {"spawn", "no_slot"} \subseteq events
  /\ "heapsort" \in paths
  /\ "heapfail" \notin paths
  /\ Cardinality({A0[i][1] : i \in 1..Len(A0)}) < Len(A0)
  /\ A # A0
  /\ A = qsort(A0, es, cmpQ, TRUE)

HeapsortDone == pc[Caller] = "heapsort_done"

\* a holds the records of b, each as many times
SamePerm(a, b) ==
  /\ Len(a) = Len(b)
  /\ \A r \in Range(a) \cup Range(b) : Count(a, r) = Count(b, r)

\* C19: a call of heapsort whose malloc, if it calls it, succeeds (and
\* every call with es <= 8, which calls none) returns 0 with the array
\* sorted and a permutation of what it was, for n from 0 on and es from 1
\* on; a call with es > 8 and n > 1 whose malloc returns NULL returns -1
\* and leaves the array as it was.
C19_Heapsort ==
  HeapsortDone =>
    /\ ("malloc_null" \notin events \/ es <= 8)
         => ("return_0" \in paths /\ SortedQ(A) /\ SamePerm(A, A0))
    /\ ("malloc_null" \in events /\ es > 8 /\ Len(A0) > 1)
         => ("return_m1" \in paths /\ A = A0)
    /\ "return_m1" \in paths => A = A0

\* heapsort has sorted records of 16 bytes, which it could only do with
\* its scratch record allocated
C19_Witness ==
  /\ HeapsortDone
  /\ es = 16
  /\ "return_0" \in paths
  /\ Len(A0) = MaxN
  /\ A # A0

\* the pass of the driver loop that task t is about to make, should
\* heapsort's malloc return NULL in it
FailPass(t) ==
  qs_iter(SubSeq(A, stack[t][Len(stack[t])].lo + 1,
                 stack[t][Len(stack[t])].lo + stack[t][Len(stack[t])].n),
          es, cmpQ, stack[t][Len(stack[t])].itn, stack[t][Len(stack[t])].max_itn,
          stack[t][Len(stack[t])].pf, FALSE)

\* C20: a pass of the driver loop in which heapsort is called and fails
\* does not end the loop: it chooses a pivot and partitions the same
\* segment, whose records it keeps; and a call of qsort in which heapsort
\* has failed still returns the array sorted and a permutation of its
\* input.
C20_HeapFailContinues ==
  /\ \A t \in Tasks :
       (pc[t] = "run" /\ stack[t] # << >> /\ "heapfail" \in Range(FailPass(t).path))
         => /\ ~FailPass(t).fin
            /\ Range(FailPass(t).path) \cap {"med9", "med25", "robust"} # {}
            /\ Len(FailPass(t).a) = stack[t][Len(stack[t])].n
            /\ FailPass(t).d1 + FailPass(t).d2 < stack[t][Len(stack[t])].n
  /\ (Returned0 /\ "heapfail" \in paths) => (SortedQ(A) /\ SamePerm(A, A0))

\* qsort has returned after a heapsort that failed and one that did not
C20_Witness ==
  /\ Returned0
  /\ {"heapfail", "heapsort"} \subseteq paths
  /\ es = 16
  /\ A # A0
  /\ SortedQ(A)

\* the innermost call of task t
Top(t) == stack[t][Len(stack[t])]

\* task t makes a pass of the driver loop that does not end its call
Passes(t) == pc[t] = "run" /\ stack[t] # << >> /\ stack'[t] # stack[t]

\* C17: with a comparator that is no total order, every pass of the driver
\* loop leaves to the call it belongs to, to the call it makes and to the
\* thread it asks for a segment with fewer records than the call had, and
\* every call of qsort returns.
C17_Terminates ==
  /\ [][\A t \in Tasks : Passes(t) =>
          /\ \A k \in Len(stack[t])..Len(stack'[t]) : stack'[t][k].n < Top(t).n
          /\ pc'[t] = "nt_lock" => pend'[t].n < Top(t).n]_vars
  /\ <>Returned0

\* with the comparator under which everything is less than anything, a
\* call on 48 records has partitioned, used heapsort and started a thread,
\* and has returned
C17_Witness ==
  /\ Returned0
  /\ qcmp \in BadCmps
  /\ Len(A0) = 48
  /\ "spawn" \in events
  /\ paths \cap {"med9", "med25", "robust"} # {}

\* the records of a from index lo on, n of them
Seg(a, lo, n) == SubSeq(a, lo + 1, lo + n)

NLines == Len(InLinesOf(orig))

NRead == Len(InLinesOf(SubSeq(orig, 1, in_pos)))

\* the batches written as runs so far: the runs in the table, and for each
\* sub-merge the MAXSUBFILES runs it replaced by one
Batches == nfiles + nsub * (MAXSUBFILES - 1)

\* no allocation, temporary file or write has failed and no signal has come
NoFailure == fails = 0 /\ errs = {} /\ npc \in {"read", "sort", "merge", "done"}

\* the merge is about to start: the last batch has just been written
MergeStart == npc = "merge" /\ OutData = << >>

\* C21: in a run without a failure on an input of N lines, no temporary
\* file is made while N <= MAXLINES (the lines are sorted in memory and
\* printed); a batch is written as a run each time a line arrives with
\* MAXLINES lines held, and the rest when the input ends, so that the merge
\* starts with ceil(N / MAXLINES) batches written.
C21_BatchCount ==
  NoFailure =>
    /\ NLines <= MAXLINES => (~merge_flag /\ ntmp = 0 /\ nfiles = 0 /\ npc # "merge")
    /\ npc \in {"read", "sort"} =>
         /\ Batches = (IF NRead = 0 THEN 0 ELSE (NRead - 1) \div MAXLINES)
         /\ Len(lines) = NRead - MAXLINES * Batches
         /\ ntmp = nfiles
    /\ MergeStart => Batches = (NLines + MAXLINES - 1) \div MAXLINES
    /\ (npc = "done" /\ NLines > MAXLINES) => merge_flag

\* seven lines with MAXLINES = 2: four batches, the fourth written after a
\* sub-merge of the first three
C21_Witness ==
  /\ NoFailure
  /\ MergeStart
  /\ NLines = 2 * MAXSUBFILES + 1
  /\ Batches = MAXSUBFILES + 1
  /\ nsub = 1

\* the places where a thread is inside lock ... unlock of ta_lock
InCS == {"nt_cs", "fin_cs", "wait_cs"}

\* task t is in new_thread at the pthread_join of slot i (qsort.c:238), the
\* first slot its scan stops at, which holds a thread
JoinsInLock(t, i) ==
  /\ pc[t] = "nt_cs"
  /\ i \in NtCand
  /\ \A k \in NtCand : i <= k
  /\ th[i]

Counted == {"start", "run", "nt_lock", "nt_cs", "fin_lock", "fin_cs"}

\* C23: nos_threads is the number of threads that were started and have
\* not yet counted themselves out, between 0 and MAX_THREAD; a slot with
\* th = NULL has no thread; and a slot is given a thread only when it has
\* none or when the thread it had has set task_fin and has ended.
C23_SlotBound ==
  /\ [](/\ nos_threads \in 0..MAX_THREAD
        /\ nos_threads = Cardinality({i \in Slots : pc[i] \in Counted})
        /\ \A i \in Slots : ~th[i] => pc[i] = "none"
        /\ \A i \in Slots : pc[i] \in Counted => (th[i] /\ task_fin[i] = 0))
  /\ [][\A i \in Slots : (pc'[i] = "start" /\ pc[i] # "start") =>
          /\ pc[i] \in {"none", "exited"}
          /\ th[i] => task_fin[i] = 1]_vars

\* every slot has a running thread, a segment found no slot and was sorted
\* in line, and a slot was used a second time
C23_Witness ==
  /\ nos_threads = MAX_THREAD
  /\ \A i \in Slots : pc[i] \in Counted
  /\ {"no_slot", "reuse"} \subseteq events

\* what belongs to call c: its T_info, its threads, what it has left to do
CallState(c) ==
  <<T[c], [t \in Tasks |-> tpc[<<c, t>>]], [i \in Slots |-> owner[<<c, i>>]],
    req[c], wji[c]>>

\* call c has returned
ReturnedC(c) == tpc[<<c, 0>>] = "done"

AtPass(t) == pc[t] = "run" /\ stack[t] # << >>

\* that pass, with heapsort's malloc succeeding if it is called
NextPass(t) ==
  qs_iter(Seg(A, Top(t).lo, Top(t).n), es, cmpQ, Top(t).itn, Top(t).max_itn,
          Top(t).pf, TRUE)

\* C25: a pass that partitions its n records into L records below the
\* pivot, R above it and E = n - L - R equal to it stores in pivot_fraction
\* (max(L, R) - min(L, R) - E) / n, a value from -1 to 1.
C25_PivotFraction ==
  \A t \in Tasks : AtPass(t) =>
    \A r \in {NextPass(t)} : ~r.fin =>
      /\ r.pf.den = Top(t).n
      /\ r.pf.num = MAX(r.d1, r.d2) - MIN(r.d1, r.d2) - (Top(t).n - r.d1 - r.d2)
      /\ r.pf.num >= 0 - Top(t).n
      /\ r.pf.num <= Top(t).n

\* the pivot of the pass task t is about to make: the record at a[0] when
\* the partition starts
PassPivot(t) ==
  At(select_pivot(bounded_insertion(Seg(A, Top(t).lo, Top(t).n), es, cmpQ).a, es, cmpQ,
                  Top(t).pf), 0)

\* C26: a pass that partitions leaves its segment as the d1 records that
\* compare below the pivot, then the records that compare equal to it, the
\* pivot among them, then the d2 records that compare above it.
C26_ThreeBands ==
  \A t \in Tasks : AtPass(t) =>
    \A r \in {NextPass(t)} : ~r.fin =>
      \A piv \in {PassPivot(t)} :
        /\ r.d1 + r.d2 < Top(t).n
        /\ \A k \in 1..Top(t).n :
             IF k <= r.d1 THEN CMP(cmpQ, r.a[k], piv) < 0
             ELSE IF k > Top(t).n - r.d2 THEN CMP(cmpQ, r.a[k], piv) > 0
             ELSE CMP(cmpQ, r.a[k], piv) = 0
        /\ \E k \in (r.d1 + 1)..(Top(t).n - r.d2) : r.a[k] = piv

\* a worker thread is about to partition a segment into three bands none
\* of which is empty, the middle one of several records
C26_Witness ==
  \E t \in Slots :
    /\ AtPass(t)
    /\ \E r \in {NextPass(t)} :
         /\ ~r.fin
         /\ r.d1 > 0
         /\ r.d2 > 0
         /\ Top(t).n - r.d1 - r.d2 >= 3

\* the pass task t is about to make comes to do_qsort with itn = max_itn
AtLimit(t) ==
  /\ AtPass(t)
  /\ Top(t).n >= USE_SMALL_SORT
  /\ Top(t).itn >= Top(t).max_itn
  /\ ~bounded_insertion(Seg(A, Top(t).lo, Top(t).n), es, cmpQ).done

\* C27: while no heapsort has failed for want of memory, a call of
\* local_qsort has partitioned at most max_itn times (itn counts its
\* partitions); the pass that would be its partition number max_itn + 1
\* heapsorts the whole segment instead and ends the call, with nothing
\* partitioned.
C27_IterationCap ==
  /\ "heapfail" \notin paths =>
        \A t \in Tasks : \A k \in 1..Len(stack[t]) :
          stack[t][k].itn \in 0..stack[t][k].max_itn
  /\ \A t \in Tasks : AtPass(t) =>
        \A r \in {NextPass(t)} :
          /\ ~r.fin => (r.itn = Top(t).itn + 1 /\ r.itn <= Top(t).max_itn)
          /\ r.fin => r.itn \in {Top(t).itn, Top(t).itn + 1}
          /\ AtLimit(t) =>
                /\ r.fin
                /\ r.path = <<"heapsort">>
                /\ r.d1 = 0 /\ r.d2 = 0
                /\ SortedQ(r.a)
                /\ SameBag(r.a, Seg(A, Top(t).lo, Top(t).n))

\* a worker thread comes to its pass number max_itn + 1 on a segment
\* that is not in order, after at least one partition of that call
C27_Witness ==
  \E t \in Slots :
    /\ AtLimit(t)
    /\ Top(t).itn >= 1
    /\ NextPass(t).path = <<"heapsort">>
    /\ "heapfail" \notin paths

\* a lower bound on the number of records call k of task t was made on:
\* the innermost call has its n records, and a call whose partition made a
\* nested call on m records had more than 2 * m
RECURSIVE NeedAt(_, _)
NeedAt(t, k) ==
  IF k >= Len(stack[t]) THEN stack[t][k].n ELSE 2 * NeedAt(t, k + 1) + 1

\* the segment task t is handing to new_thread
Handing(t) == pc[t] \in {"nt_lock", "nt_cs"}

\* C28: a pass that partitions makes its nested call, or asks new_thread
\* for a thread, on the smaller of the partitions below and above the pivot
\* and goes round its loop on the larger one, so the nested call gets fewer
\* than half of the records of the segment partitioned; and a thread that
\* has d calls of local_qsort active, the outermost made on n records, has
\* 2^d <= n.
C28_SmallerFirst ==
  /\ \A t \in Tasks : AtPass(t) =>
        \A r \in {NextPass(t)} : ~r.fin =>
          \A ch \in {child_seg(r, Top(t).n)} : \A co \in {cont_seg(r, Top(t).n)} :
            /\ ch.n = (IF MIN(r.d1, r.d2) > 1 THEN MIN(r.d1, r.d2) ELSE 0)
            /\ co.n = (IF MAX(r.d1, r.d2) > 1 THEN MAX(r.d1, r.d2) ELSE 0)
            /\ ch.lo = (IF r.d1 <= r.d2 THEN 0 ELSE Top(t).n - r.d2)
            /\ co.lo = (IF r.d1 <= r.d2 THEN Top(t).n - r.d2 ELSE 0)
            /\ 2 * ch.n < Top(t).n
            /\ ch.n <= co.n
  /\ \A t \in Tasks :
        /\ \A k \in 1..(Len(stack[t]) - 1) :
              /\ stack[t][k + 1].n <= stack[t][k].n
              /\ stack[t][k + 1].lo + stack[t][k + 1].n <= stack[t][k].lo
                   \/ stack[t][k].lo + stack[t][k].n <= stack[t][k + 1].lo
        /\ (Handing(t) /\ stack[t] # << >>) => pend[t].n <= Top(t).n
        /\ stack[t] # << >> =>
              /\ pow2(Len(stack[t])) <= NeedAt(t, 1)
              /\ NeedAt(t, 1) <= (IF t = Caller THEN Len(A) ELSE (Len(A) - 1) \div 2)

\* a thread with three calls of local_qsort active is about to partition
\* and make a fourth on several records
C28_Witness ==
  \E t \in Tasks :
    /\ AtPass(t)
    /\ Len(stack[t]) >= 3
    /\ \E r \in {NextPass(t)} :
         /\ ~r.fin
         /\ child_seg(r, Top(t).n).n > 1
         /\ r.d1 > r.d2

\* ------------------------------------------------------------------------
\* Pivot selection called by itself: one of opt_med9, opt_med25, the two
\* fast paths and the median of medians (qsort.c:487-546, 683-855) is
\* applied once to an array.  pc[Caller] names the function to be called.
\* ------------------------------------------------------------------------
HalfBits == 11  \* the records of a 25-record input that are chosen freely

Bits == {0, 1}

\* every array of nine records with keys 0 and 1
Bin9 == {[i \in 1..9 |-> <<k[i], i>>] : k \in [1..9 -> Bits]}

\* arrays of 25 records with keys 0 and 1 of which 12 or 13 are 1: records
\* 1..HalfBits are chosen freely, record 12 + i has the other key than
\* record i, and record 25 is chosen freely
Bal25Key(b, last, i) ==
  IF i = 25 THEN last
  ELSE IF i <= HalfBits THEN b[i]
  ELSE IF i <= 12 THEN 0
  ELSE IF i <= 12 + HalfBits THEN 1 - b[i - 12]
  ELSE 1

Bal25 ==
  {[i \in 1..25 |-> <<Bal25Key(b, last, i), i>>] :
     b \in [1..HalfBits -> Bits], last \in Bits}

Med9Sizes == {9, 10, 15, 16, 17, 24}
Med25Sizes == {25, 26, 48, 49, 50, 72, 73}
RobustSizes == {9, 25, 48, 49, 50, 51, 52, 74, 75, 76, 99, 100, 101}

PivotInputs(f) ==
  IF f = "opt_med9" THEN Bin9 \cup {PatArray(q, 9) : q \in Patterns}
  ELSE IF f = "opt_med25" THEN Bal25 \cup {PatArray(q, 25) : q \in Patterns}
  ELSE IF f = "med9" THEN {PatArray(q, n) : q \in Patterns, n \in Med9Sizes}
  ELSE IF f = "med25" THEN {PatArray(q, n) : q \in Patterns, n \in Med25Sizes}
  ELSE {PatArray(q, n) : q \in Patterns, n \in RobustSizes}

PivotCalls == {"opt_med9", "opt_med25", "med9", "med25", "robust"}

InitP ==
  /\ pc \in {[t \in Tasks |-> IF t = Caller THEN f ELSE "none"] : f \in PivotCalls}
  /\ A0 \in PivotInputs(pc[Caller])
  /\ A = A0
  /\ es = 8
  /\ qcmp = "byKey"
  /\ stack = [t \in Tasks |-> << >>]
  /\ pend = [t \in Tasks |-> NoSeg]
  /\ th = [i \in Slots |-> FALSE]
  /\ task_fin = [i \in Slots |-> 0]
  /\ nos_threads = 0
  /\ ta_lock = NoTask
  /\ pool = FALSE
  /\ paths = {}
  /\ ji = 1
  /\ events = {}
  /\ NIdle
  /\ CIdle

\* the call of function f returns, leaving the array as r
PivotReturn(f, r) ==
  /\ pc[Caller] = f
  /\ A' = r
  /\ paths' = {f}
  /\ pc' = [pc EXCEPT ![Caller] = "pivot_done"]
  /\ UNCHANGED <<A0, es, qcmp, stack, pend, th, task_fin, nos_threads, ta_lock, pool,
                 ji, events>>
  /\ UNCHANGED <<nvars, cvars>>

OptMed9Call == PivotReturn("opt_med9", opt_med9(A, 0, cmpQ))

OptMed25Call == PivotReturn("opt_med25", opt_med25(A, 0, cmpQ))

PivotMed9Call == PivotReturn("med9", pivot_med9(A, cmpQ))

PivotMed25Call == PivotReturn("med25", pivot_med25(A, cmpQ))

PivotRobustCall == PivotReturn("robust", pivot_robust(A, es, cmpQ))

NextP ==
  \/ OptMed9Call
  \/ OptMed25Call
  \/ PivotMed9Call
  \/ PivotMed25Call
  \/ PivotRobustCall

SpecP == InitP /\ [][NextP]_vars

\* the numbers of medians the passes of the median of medians leave at the
\* start of the array, first pass first (p1 at the end of each pass)
RECURSIVE mm_counts(_, _, _)
mm_counts(st, size, cmp) ==
  IF st.n1 > 50
  THEN <<mm_pass(st.a, st.n1, size, cmp).p1>>
         \o mm_counts(mm_next(mm_pass(st.a, st.n1, size, cmp), st.n1), size, cmp)
  ELSE << >>

\* record x is a median of the records of sq: at most half of them come
\* before it and at most half after it
IsMedian(x, sq) ==
  /\ \E k \in 1..Len(sq) : sq[k] = x
  /\ 2 * Cardinality({k \in 1..Len(sq) : CMP(cmpQ, sq[k], x) < 0}) <= Len(sq)
  /\ 2 * Cardinality({k \in 1..Len(sq) : CMP(cmpQ, sq[k], x) > 0}) <= Len(sq)

\* the median of medians is about to be called, and leaves the array as r
\* after passes that made the numbers of medians in cnt
RobustCase == pc[Caller] = "robust"

\* C29: every pass of the median of medians makes an odd number of
\* medians, so that the final median is taken over an odd number of them,
\* and the record it leaves at index 0 is a median of the records the final
\* median was taken over.
C29_OddMedians ==
  RobustCase =>
    \A st \in {mm_levels([a |-> A, p1 |-> 0, n1 |-> Len(A)], es, cmpQ)} :
    \A cnt \in {mm_counts([a |-> A, p1 |-> 0, n1 |-> Len(A)], es, cmpQ)} :
      /\ \A k \in 1..Len(cnt) : cnt[k] % 2 = 1
      /\ st.p1 # 0 => st.p1 % 2 = 1
      /\ \A r \in {pivot_robust(A, es, cmpQ)} :
           /\ SameBag(r, A)
           /\ IsMedian(At(r, 0), SubSeq(st.a, 1, IF st.p1 # 0 THEN st.p1 ELSE st.n1))

\* a call of one of the pivot functions has returned
PivotDone(f) == pc[Caller] = "pivot_done" /\ f \in paths

\* the samples of the fast path on A0: its first m records once the
\* samples have been brought to the start of the array
Sampled ==
  IF "med25" \in paths THEN sample25(A0, (Len(A0) - 1) \div 24, 1, 24)
  ELSE sample9(A0, Len(A0) \div 2, Len(A0) - 1, Len(A0) \div 8)

\* array b is array a with its first m records in another order
FirstPermuted(a, b, m) ==
  /\ Len(a) = Len(b)
  /\ SameBag(SubSeq(a, 1, m), SubSeq(b, 1, m))
  /\ SubSeq(a, m + 1, Len(a)) = SubSeq(b, m + 1, Len(b))

\* C30: opt_med9 leaves a median of its 9 records at index 4 and
\* opt_med25 a median of its 25 records at index 12, the records being the
\* ones it was given in some order; the fast pivot paths leave at index 0 a
\* median of the 9 (or 25) records sampled, and the rest of the array as the
\* sampling left it.
C30_MedianNetworks ==
  /\ PivotDone("opt_med9") => (IsMedian(At(A, 4), A0) /\ SameBag(A, A0))
  /\ PivotDone("opt_med25") => (IsMedian(At(A, 12), A0) /\ SameBag(A, A0))
  /\ PivotDone("med9") =>
        \A sm \in {Sampled} :
          /\ IsMedian(At(A, 0), SubSeq(sm, 1, 9))
          /\ FirstPermuted(sm, A, 9)
          /\ SameBag(A, A0)
  /\ PivotDone("med25") =>
        \A sm \in {Sampled} :
          /\ IsMedian(At(A, 0), SubSeq(sm, 1, 25))
          /\ FirstPermuted(sm, A, 25)
          /\ SameBag(A, A0)

\* opt_med25 has returned on 25 records of which twelve have the key 0
\* and thirteen the key 1, out of order, with a 1 at index 12
C30_Witness ==
  /\ PivotDone("opt_med25")
  /\ Cardinality({k \in 1..25 : A0[k][1] = 1}) = 13
  /\ Cardinality({k \in 1..25 : A0[k][1] = 0}) = 12
  /\ A0[13][1] = 0
  /\ A0[1][1] = 1
  /\ At(A, 12)[1] = 1

\* ------------------------------------------------------------------------
\* qsort called by one thread on short arrays that are nearly in order:
\* every array of 9 records over InsKeys and of 10 records over Bits, too
\* short for a thread to be started (n < PAR_MIN_N)
\* ------------------------------------------------------------------------
InsKeys == {0, 1, 2}

InsInputs ==
  {[i \in 1..9 |-> <<k[i], i>>] : k \in [1..9 -> InsKeys]}
    \cup {[i \in 1..10 |-> <<k[i], i>>] : k \in [1..10 -> Bits]}

InitI ==
  /\ A0 \in InsInputs
  /\ A = A0
  /\ es \in RecSizes
  /\ qcmp = "byKey"
  /\ stack = [t \in Tasks |-> << >>]
  /\ pc = [t \in Tasks |-> IF t = Caller THEN "entry" ELSE "none"]
  /\ pend = [t \in Tasks |-> NoSeg]
  /\ th = [i \in Slots |-> FALSE]
  /\ task_fin = [i \in Slots |-> 0]
  /\ nos_threads = 0
  /\ ta_lock = NoTask
  /\ pool = FALSE
  /\ paths = {}
  /\ ji = 1
  /\ events = {}
  /\ NIdle
  /\ CIdle

NextI ==
  \/ QsortEntry
  \/ Iterate(Caller)

SpecI == InitI /\ [][NextI]_vars

\* the indexes (from 1) of the records of sq that come before a record
\* to their left: the records the scan finds smaller than their left
\* neighbour, the records to the left being in order when it gets there
OutOfPlace(sq) ==
  {i \in 2..Len(sq) : \E j \in 1..(i - 1) : CMP(cmpQ, sq[i], sq[j]) < 0}

\* the index at which the scan gives up: that of record number
\* MAX_INS_MOVES + 1 of OutOfPlace(sq)
StopAt(sq) ==
  CHOOSE i \in OutOfPlace(sq) :
    Cardinality({j \in OutOfPlace(sq) : j < i}) = MAX_INS_MOVES

\* task t is about to make a pass on a segment of at least USE_SMALL_SORT
\* records
AtInsertion(t) == AtPass(t) /\ Top(t).n >= USE_SMALL_SORT

\* C31: the bounded insertion on a segment of at least USE_SMALL_SORT
\* records ends the pass with the segment in order if and only if at most
\* MAX_INS_MOVES of its records come before a record to their left; at
\* record number MAX_INS_MOVES + 1 of these it stops with the records
\* before that one in order, that one and the ones after it where they were,
\* and the pass goes on to do_qsort with all the records of the segment.
C31_BoundedInsertion ==
  \A t \in Tasks : AtInsertion(t) =>
    \A sg \in {Seg(A, Top(t).lo, Top(t).n)} :
    \A ins \in {bounded_insertion(sg, es, cmpQ)} :
    \A oop \in {OutOfPlace(sg)} :
    \A r \in {NextPass(t)} :
      /\ ins.done <=> Cardinality(oop) <= MAX_INS_MOVES
      /\ SameBag(ins.a, sg)
      /\ ins.done =>
            /\ SortedQ(ins.a)
            /\ ins.swap_cnt = Cardinality(oop)
            /\ r.fin /\ r.path = <<"insertion">> /\ r.a = ins.a
            /\ r.itn = Top(t).itn
      /\ ~ins.done =>
            /\ ins.swap_cnt = MAX_INS_MOVES + 1
            /\ \A st \in {StopAt(sg)} :
                 /\ SortedQ(SubSeq(ins.a, 1, st - 1))
                 /\ SameBag(SubSeq(ins.a, 1, st - 1), SubSeq(sg, 1, st - 1))
                 /\ SubSeq(ins.a, st, Len(sg)) = SubSeq(sg, st, Len(sg))
            /\ r.itn = Top(t).itn + 1
            /\ r.path # <<"insertion">>
            /\ SameBag(r.a, sg)

\* qsort is about to make its first pass on ten records of general size
\* of which exactly MAX_INS_MOVES are out of place, the last record one of
\* them
C31_Witness ==
  /\ AtInsertion(Caller)
  /\ es = 16
  /\ \E oop \in {OutOfPlace(Seg(A, Top(Caller).lo, Top(Caller).n))} :
       /\ Cardinality(oop) = MAX_INS_MOVES
       /\ 10 \in oop

\* ------------------------------------------------------------------------
\* The two merge loops of the line sorter
\* ------------------------------------------------------------------------
\* the lines of file e that have not been read
Unread(e) == SplitLines(SubSeq(e.f, e.pos + 1, Len(e.f)))

\* the lines the active files subf[0..n-1] of a merge still have to give:
\* the front line of each and the lines not yet read
Pending(subf, n) ==
  Flatten([i \in 1..n |-> <<subf[i - 1].line>> \o Unread(subf[i - 1])])

\* the front line of file m comes no later than that of any active file
FrontLeast(subf, n, m, cmp) ==
  \A i \in 0..(n - 1) : CMP(cmp, subf[m].line, subf[i].line) <= 0

\* the front line of every active file comes no later than the lines of
\* the file not yet read, which are in order
FrontsFirst(subf, n, cmp) ==
  \A i \in 0..(n - 1) : Ordered(<<subf[i].line>> \o Unread(subf[i]), cmp)

\* a pass of a merge loop took the front line of file m of subf[0..n-1]
\* and left subf2[0..n2-1]: if the file had another line that is its front
\* line now and nothing else has changed, and if not the last active file
\* has taken its place and there is one active file fewer
PassOK(subf, n, m, subf2, n2) ==
  IF subf[m].pos < Len(subf[m].f)
  THEN /\ n2 = n
       /\ subf2[m].f = subf[m].f
       /\ <<subf2[m].line>> \o Unread(subf2[m]) = Unread(subf[m])
       /\ \A i \in 0..(n - 1) : i # m => subf2[i] = subf[i]
  ELSE /\ n2 = n - 1
       /\ \A i \in 0..(n2 - 1) :
            /\ subf2[i].f = subf[IF i = m THEN n - 1 ELSE i].f
            /\ subf2[i].pos = subf[IF i = m THEN n - 1 ELSE i].pos
            /\ subf2[i].line = subf[IF i = m THEN n - 1 ELSE i].line

\* every pass of the sub-merge from the state st on is as C32 says, and at
\* its end the lines written are in order and, if no file merged was
\* empty, are the lines of the files merged
RECURSIVE SubMergeOK(_, _)
SubMergeOK(st, cmp) ==
  IF st.n = 0
  THEN /\ Ordered(SplitLines(st.out), cmp)
       /\ (\A i \in 0..(nfiles - 1) : subfiles[i].f # << >>) =>
            SameBag(SplitLines(st.out), RunLines(subfiles, nfiles))
  ELSE \A m \in {sf_min(st.subf, st.n, cmp, 1, 0)} : \A nx \in {sm_pass(st, cmp)} :
         /\ FrontLeast(st.subf, st.n, m, cmp)
         /\ nx.out = st.out \o st.subf[m].line
         /\ PassOK(st.subf, st.n, m, nx.subf, nx.n)
         /\ SubMergeOK(nx, cmp)

\* the next call of make_subfile will merge the files there are
BeforeSubMerge == npc \in {"read", "sort"} /\ nfiles >= MAXSUBFILES

\* a step of the final merge loop
IsMergeStep == npc = "merge" /\ npc' \in {"merge", "done", "exit1"}

\* C32: in the sub-merge and in the final merge every line written comes
\* no later, under the comparator in use, than the front line of any file
\* still active; a file that has no further line is replaced by the last
\* active file and the number of active files goes down by one; the loop
\* ends when no file is active, every line of every file written; and the
\* lines of every temporary file, a file written by a sub-merge included,
\* are in order.
C32_MergeOrder ==
  /\ [](/\ npc \in {"read", "sort", "merge"} =>
            \A i \in 0..(nfiles - 1) : Ordered(SplitLines(subfiles[i].f), CmpFn(comp))
        /\ npc = "merge" =>
            /\ FrontLeast(subfiles, nfiles, sf_min(subfiles, nfiles, CmpFn(comp), 1, 0),
                          CmpFn(comp))
            /\ FrontsFirst(subfiles, nfiles, CmpFn(comp))
            /\ (fails = 0 /\ ~do_uniq) =>
                  SameBag(OutLines \o Pending(subfiles, nfiles), InLinesOf(orig))
        /\ (npc = "done" /\ merge_flag) => nfiles = 0
        /\ BeforeSubMerge =>
            \A junk \in JunkChoices :
            \A st \in {[subf |-> sf_prepare(subfiles, nfiles, junk), n |-> nfiles,
                         out |-> << >>]} :
              /\ SubMergeOK(st, CmpFn(comp))
              /\ FrontsFirst(st.subf, st.n, CmpFn(comp)))
  /\ [][IsMergeStep =>
          \A m \in {sf_min(subfiles, nfiles, CmpFn(comp), 1, 0)} :
            /\ PassOK(subfiles, nfiles, m, subfiles', nfiles')
            /\ (npc' = "merge") = (nfiles' > 0)
            /\ ~do_uniq => OutData' = OutData \o subfiles[m].line]_vars

\* the final merge of a run with a sub-merge has written lines, all the
\* files but one have run out, and that one has lines to give
C32_Witness ==
  /\ npc = "merge"
  /\ nsub >= 1
  /\ fails = 0
  /\ nfiles = 1
  /\ OutData # << >>
  /\ Len(Pending(subfiles, nfiles)) >= 2

\* the slots in which a step starts a thread
Started == {i \in Slots : pc'[i] = "start" /\ pc[i] # "start"}

\* task t leaves the critical section of new_thread
LeavesNewThread(t) == pc[t] = "nt_cs" /\ pc'[t] # "nt_cs"

\* the calls, of any task, made on the segment sg and not yet begun
FreshCalls(stk, sg) ==
  {<<u, k>> \in Tasks \X (1..MaxN) :
      /\ k <= Len(stk[u])
      /\ stk[u][k] = NewCall(sg.lo, sg.n)}

\* C33: a segment is handed to new_thread only if it has at least
\* PAR_MIN_N records and comes from a partition whose pivot_fraction is at
\* most MAX_PIVOT_FRACTION; new_thread either starts one thread on it, with
\* nos_threads one higher, or - when no slot was usable or the thread could
\* not be created - leaves nos_threads as it was and the thread that called
\* it sorts the segment by a call of its own, made with ta_lock released;
\* either way one call is made on the segment, and a qsort in which that
\* happened returns with the array sorted.
C33_SpawnOrInline ==
  /\ [](/\ \A t \in Tasks : Handing(t) =>
             /\ pend[t].n >= PAR_MIN_N
             /\ Top(t).pf.num * 1000 <= MAX_PIVOT_FRACTION_x1000 * Top(t).pf.den
        /\ \A t \in Tasks : AtPass(t) => ta_lock # t
        /\ (Returned0 /\ events \cap {"no_slot", "create_failed"} # {}) =>
             (SortedQ(A) /\ SamePerm(A, A0)))
  /\ [][\A t \in Tasks : LeavesNewThread(t) =>
          /\ ta_lock = t /\ ta_lock' = NoTask
          /\ NtCand = {} => Started = {}
          /\ Cardinality(FreshCalls(stack', pend[t])) =
               Cardinality(FreshCalls(stack, pend[t])) + 1
          /\ IF Started # {}
             THEN /\ Cardinality(Started) = 1
                  /\ \A i \in Started : stack'[i] = <<NewCall(pend[t].lo, pend[t].n)>>
                  /\ nos_threads' = nos_threads + 1
                  /\ stack'[t] = unwind(stack[t])
             ELSE /\ nos_threads' = nos_threads
                  /\ stack'[t] = stack[t] \o <<NewCall(pend[t].lo, pend[t].n)>>
                  /\ pc'[t] = "run"
                  /\ \A i \in Slots \ {t} : stack'[i] = stack[i]]_vars

\* a worker thread is about to sort in line a segment it had offered to
\* new_thread, in a call in which a segment found no slot and a thread
\* could not be created
C33_Witness ==
  /\ {"no_slot", "create_failed"} \subseteq events
  /\ \E t \in Slots :
       /\ AtPass(t)
       /\ Top(t) = NewCall(pend[t].lo, pend[t].n)
       /\ pend[t].n >= PAR_MIN_N
       /\ ta_lock # t

\* the index ranges task t has to sort: those of its calls that are not
\* at their end, and the one it is handing to new_thread
Segs(t) ==
  {[lo |-> stack[t][k].lo, n |-> stack[t][k].n] :
      k \in {j \in 1..Len(stack[t]) : stack[t][j].n > 0}}
    \cup (IF Handing(t) THEN {pend[t]} ELSE {})

\* the ranges x and y have no index in common
Apart(x, y) == x.lo + x.n <= y.lo \/ y.lo + y.n <= x.lo

\* C34: the index ranges that different threads are sorting or have still
\* to sort never overlap, the range a thread is handing to new_thread
\* overlaps none of its own and none of another thread's, and a pass of
\* the driver loop by a thread changes records of the range of that
\* thread's innermost call only; so no record is in use by two threads.
C34_DisjointSegments ==
  /\ [](/\ \A t, u \in Tasks : t # u =>
             \A x \in Segs(t) : \A y \in Segs(u) : Apart(x, y)
        /\ \A t \in Tasks : \A x, y \in Segs(t) : x = y \/ Apart(x, y)
        /\ \A t \in Tasks : \A x \in Segs(t) : x.lo >= 0 /\ x.lo + x.n <= Len(A))
  /\ [][\A t \in Tasks : (AtPass(t) /\ stack'[t] # stack[t]) =>
          /\ Len(A') = Len(A)
          /\ \A k \in 1..Len(A) :
               (k <= Top(t).lo \/ k > Top(t).lo + Top(t).n) => A'[k] = A[k]
          /\ \A u \in Tasks \ {t} : \A x \in Segs(u) :
               Seg(A', x.lo, x.n) = Seg(A, x.lo, x.n)]_vars

\* the thread that called qsort and two worker threads, one of them
\* started by the other, are each about to make a pass on a range of
\* their own
C34_Witness ==
  /\ "nested" \in events
  /\ \A t \in Tasks : AtPass(t) /\ Top(t).n >= 2
  /\ \E t \in Slots : Len(stack[t]) >= 2

\* ------------------------------------------------------------------------
\* The thread pool under fair scheduling: the machine of Spec with the
\* threads scheduled as Fairness says
\* ------------------------------------------------------------------------
SpecFair == Spec /\ Fairness

\* some thread can take a step: a thread other than a polling caller can,
\* or the caller is in its polling loop with ta_lock free or its own
CanStep ==
  \/ ProgressEnabled
  \/ pc[Caller] = "wait" /\ ta_lock = NoTask
  \/ pc[Caller] = "wait_cs"

\* C35: with the threads scheduled fairly, as long as qsort has not
\* returned some thread can take a step; a thread that new_thread joins
\* with ta_lock held has set task_fin and released ta_lock; every worker
\* thread that was started comes to set task_fin, which it does holding
\* ta_lock and giving it back; and a caller in wait_all_threads comes to
\* read nos_threads = 0, joins what is left and returns.
C35_NoDeadlock ==
  /\ [](/\ Returned0 \/ CanStep
        /\ \A t \in Tasks : \A i \in Slots : JoinsInLock(t, i) =>
             (task_fin[i] = 1 /\ ta_lock # i /\ pc[i] \in {"ret", "exited"})
        /\ pc[Caller] = "join" => nos_threads = 0)
  /\ [][\A i \in Slots : (pc'[i] = "ret" /\ pc[i] # "ret") =>
          (pc[i] = "fin_cs" /\ ta_lock = i /\ ta_lock' = NoTask /\ task_fin'[i] = 1)]_vars
  /\ \A i \in Slots : (pc[i] = "start") ~> (pc[i] = "ret")
  /\ (pc[Caller] = "wait") ~> Returned0

\* a worker thread that has sorted its segment waits for ta_lock, which
\* the caller holds in its polling loop, in a call in which new_thread
\* joined a finished thread
C35_Witness ==
  /\ pc[Caller] = "wait_cs"
  /\ "reuse" \in events
  /\ \E i \in Slots : pc[i] = "fin_lock" /\ ta_lock = Caller

\* the steps of a worker thread's life in a slot, from the creation of the
\* thread to its join
LifeSteps ==
  {<<"none", "start">>, <<"start", "run">>, <<"run", "nt_lock">>,
   <<"nt_lock", "nt_cs">>, <<"nt_cs", "run">>, <<"run", "fin_lock">>,
   <<"nt_cs", "fin_lock">>, <<"fin_lock", "fin_cs">>, <<"fin_cs", "ret">>,
   <<"ret", "exited">>, <<"exited", "none">>, <<"exited", "start">>}

\* the thread of slot i is joined by this step
Joined(i) == pc[i] = "exited" /\ pc'[i] # "exited"

\* the step is the join of slot i in new_thread, made by a thread whose
\* scan stopped at i
JoinedByNewThread(i) ==
  \E t \in Tasks \ {i} : LeavesNewThread(t) /\ JoinsInLock(t, i)

\* the step is the join of slot i in the loop of wait_all_threads
JoinedByWait(i) == pc[Caller] = "join" /\ ji = i

\* C36: a slot refers to a thread from the thread's creation to its join;
\* a thread goes through its life once and leaves it by one join, made
\* after it set task_fin and ended, which is that of new_thread on the
\* slot its scan stopped at or that of wait_all_threads; a slot is given a
\* new task only if it refers to no thread or in the step that joins the
\* thread it referred to; and when qsort returns no slot refers to a
\* thread.
C36_JoinedOnce ==
  /\ [](/\ \A i \in Slots : th[i] <=> pc[i] # "none"
        /\ Returned0 => \A i \in Slots : ~th[i])
  /\ [][\A i \in Slots :
          /\ pc'[i] # pc[i] => <<pc[i], pc'[i]>> \in LifeSteps
          /\ Joined(i) =>
               /\ th[i]
               /\ task_fin[i] = 1
               /\ JoinedByNewThread(i) \/ JoinedByWait(i)
          /\ (th[i] /\ ~Joined(i)) => th'[i]
          /\ (pc'[i] = "start" /\ pc[i] # "start") =>
               /\ ~th[i] \/ Joined(i)
               /\ th'[i]
               /\ task_fin'[i] = 0
               /\ stack'[i] # << >>]_vars

\* wait_all_threads is about to join the thread of the last slot, in a
\* call in which new_thread joined a thread to use its slot again
C36_Witness ==
  /\ pc[Caller] = "join"
  /\ ji = MAX_THREAD
  /\ th[ji]
  /\ pc[ji] = "exited"
  /\ "reuse" \in events

\* C37: when the final merge or a sub-merge starts, every registered
\* temporary file holds at least one line, and during the final merge the
\* front line of every active file is one of the lines of that file; in
\* runs with failed allocations too.
C37_RunsNonEmpty ==
  /\ (MergeStart \/ BeforeSubMerge) =>
        \A i \in 0..(nfiles - 1) : SplitLines(subfiles[i].f) # << >>
  /\ npc = "merge" =>
        \A i \in 0..(nfiles - 1) :
          subfiles[i].has => subfiles[i].line \in Range(SplitLines(subfiles[i].f))

\* ------------------------------------------------------------------------
\* The line sorter on inputs whose lines get longer: one run of main on
\* the first n lines of a text in which line i has 1 + i*i/12 letters, so
\* that the input buffer grows between the spills
\* ------------------------------------------------------------------------
LongLine(i) == [j \in 1..(1 + (i * i) \div 12) |-> 97 + ((5 * i + j) % 7)] \o <<10>>

LongLines(n) == [i \in 1..n |-> LongLine(i)]

LongData ==
  {Flatten(LongLines(n)) : n \in 0..MaxInLines}
    \cup {SubSeq(Flatten(LongLines(n)), 1, Len(Flatten(LongLines(n))) - 1) :
            n \in 1..MaxInLines}

InitL ==
  /\ QIdle
  /\ CIdle
  /\ \E av \in Argvs, data \in LongData : NStart(av, data)

SpecL == InitL /\ [][NextN]_vars

\* the front line of file e is the last line read from it, whole: what
\* has been read of the file is so many of its lines
WholeFront(e) ==
  \A got \in {SplitLines(SubSeq(e.f, 1, e.pos))} :
    /\ got # << >>
    /\ e.line = got[Len(got)]
    /\ got \o Unread(e) = SplitLines(e.f)

\* from the state st of the sub-merge on, every front line is a whole line
RECURSIVE SubMergeWhole(_, _)
SubMergeWhole(st, cmp) ==
  /\ \A i \in 0..(st.n - 1) : st.subf[i].f # << >> => WholeFront(st.subf[i])
  /\ st.n > 0 => SubMergeWhole(sm_pass(st, cmp), cmp)

\* C38: the line buffer of every registered temporary file is longer than
\* every line of the file, newline included, that of a file written by a
\* sub-merge too; so every fgets of a merge, final or sub-merge, reads one
\* whole line of its file.
C38_WholeLines ==
  /\ npc \in {"read", "sort", "merge"} =>
        \A i \in 0..(nfiles - 1) :
          /\ subfiles[i].line_size <= buf_size
          /\ \A ln \in Range(SplitLines(subfiles[i].f)) :
               Len(ln) < subfiles[i].line_size /\ ln[Len(ln)] = 10
  /\ npc = "merge" =>
        \A i \in 0..(nfiles - 1) :
          (subfiles[i].f # << >> /\ subfiles[i].has) => WholeFront(subfiles[i])
  /\ BeforeSubMerge =>
        SubMergeWhole([subf |-> sf_prepare(subfiles, nfiles, << >>), n |-> nfiles,
                       out |-> << >>], CmpFn(comp))

\* the final merge has read a line longer than the first input buffer
\* from the file written by a sub-merge, which has more lines, and reads
\* a file written later, whose line buffer is longer
C38_Witness ==
  /\ npc = "merge"
  /\ nsub >= 1
  /\ nfiles >= 2
  /\ fails = 0
  /\ Len(subfiles[0].line) > INIT_BUF_SIZE
  /\ Unread(subfiles[0]) # << >>
  /\ \E i, k \in 0..(nfiles - 1) : subfiles[i].line_size < subfiles[k].line_size

\* the files of the active entries of a sub-merge
ActiveFiles(st) == [i \in 1..st.n |-> st.subf[i - 1].f]

\* from the state st of a sub-merge of the nfiles registered files on:
\* the active entries hold open files with their line buffers, the entries
\* given up are flagged (line = NULL); a pass that finds its file at its
\* end closes it and frees its buffer, and the active files after it are
\* those before it less that one; at the end every entry is flagged, so
\* that the tidy-up loop has nothing to close
RECURSIVE SubMergeCloses(_, _)
SubMergeCloses(st, cmp) ==
  /\ \A i \in 0..(nfiles - 1) : st.subf[i].has <=> i < st.n
  /\ st.n > 0 =>
       \A m \in {sf_min(st.subf, st.n, cmp, 1, 0)} : \A nx \in {sm_pass(st, cmp)} :
         /\ IF nx.n < st.n
            THEN /\ nx.n = st.n - 1
                 /\ SameBag(ActiveFiles(nx) \o <<st.subf[m].f>>, ActiveFiles(st))
            ELSE ActiveFiles(nx) = ActiveFiles(st)
         /\ SubMergeCloses(nx, cmp)

\* the temporary files open in the next call of make_subfile once it has
\* made its file (nsort.c:448): its output file and the registered ones
OpenInSpill == ntmp + 1

\* C39: never more than MAXSUBFILES temporary files are registered and
\* open between calls of make_subfile, and never more than MAXSUBFILES + 1
\* inside one; a sub-merge closes each file it read and frees its line
\* buffer once, in the pass that finds the file at its end, and leaves
\* two files open, its output and the new file (a sub-merge of files one
\* of which has no line buffer does not get that far: C14).
C39_OpenFiles ==
  /\ [](/\ ntmp <= MAXSUBFILES
        /\ nfiles <= MAXSUBFILES
        /\ npc \in {"read", "sort"} =>
             /\ ntmp = nfiles
             /\ OpenInSpill <= MAXSUBFILES + 1
        /\ (BeforeSubMerge /\ ~sf_null(subfiles, nfiles)) =>
             SubMergeCloses([subf |-> sf_prepare(subfiles, nfiles, << >>), n |-> nfiles,
                             out |-> << >>], CmpFn(comp)))
  /\ [][(nsub' > nsub /\ npc' \in {"read", "sort", "merge"}) =>
          /\ ntmp = MAXSUBFILES
          /\ ntmp' = 2
          /\ nfiles' = 2
          /\ \A i \in 0..(MAXSUBFILES - 1) : subfiles'[i].has => i < 2]_vars

\* MAXSUBFILES files are registered, the next spill will merge them with
\* MAXSUBFILES + 1 files open, and a sub-merge has been done before
C39_Witness ==
  /\ BeforeSubMerge
  /\ npc = "read"
  /\ nsub >= 1
  /\ OpenInSpill = MAXSUBFILES + 1
  /\ \A i \in 0..(nfiles - 1) : subfiles[i].has

\* qsort has called local_qsort with pT_i = NULL
NoPool == pc[Caller] # "entry" /\ ~pool

\* C40: a thread in new_thread has a T_info: qsort passes NULL only for
\* fewer than PAR_MIN_N records; a pass of any call, with or without a
\* T_info, leaves to the nested call and to the loop fewer records than
\* the call had; so without a T_info every call of local_qsort, at any
\* depth, is on fewer than PAR_MIN_N records, no segment a partition
\* produces is large enough to go to new_thread, and the thread that
\* called qsort does all the sorting.
C40_PoolForSpawn ==
  /\ \A t \in Tasks : Handing(t) => pool
  /\ pool => Len(A) >= PAR_MIN_N
  /\ \A t \in Tasks : AtPass(t) =>
        \A r \in {NextPass(t)} : ~r.fin =>
          /\ child_seg(r, Top(t).n).n < Top(t).n
          /\ cont_seg(r, Top(t).n).n < Top(t).n
          /\ NoPool => ~use_new_thread(r.pf, child_seg(r, Top(t).n).n)
  /\ NoPool =>
        /\ Len(A) < PAR_MIN_N
        /\ \A i \in Slots : pc[i] = "none" /\ stack[i] = << >> /\ ~th[i]
        /\ nos_threads = 0
        /\ ta_lock = NoTask
        /\ pc[Caller] \in {"run", "done"}
        /\ \A k \in 1..Len(stack[Caller]) : stack[Caller][k].n < PAR_MIN_N

\* a call of qsort without a T_info has partitioned with a
\* pivot_fraction that would allow a thread and is in a nested call of
\* local_qsort on several records, with more for the loop to go on with
C40_Witness ==
  /\ NoPool
  /\ AtPass(Caller)
  /\ Len(stack[Caller]) >= 2
  /\ Top(Caller).n >= 3
  /\ stack[Caller][1].n >= 3
  /\ ~pf_bad(stack[Caller][1].pf)

====
